---- MODULE Spec2Model ----
(***************************************************************************)
(* Model of the state-tree transition engine of game_state_js:             *)
(* StateTree (constructor, onInitialize, onUpdate, changeState,            *)
(* _onApplyTick, findCommonAncestor, commitStateChange) and GameState      *)
(* (resolveChildren, onEnter, onExit, onUpdate, checkParentHierarchy),     *)
(* with StateTree.onDestroy, UpdateArgs.requestState, the reference        *)
(* parameters (SystemRef, StateRef) and EventGameSystem's listener lists.  *)
(*                                                                         *)
(* A game state is identified by its name, a number in 1..n; NULL stands   *)
(* for JavaScript's null/undefined.  Unit k of state n is the pair <<n,k>>.*)
(***************************************************************************)
EXTENDS Integers, Sequences, FiniteSets, TLC

\* ------------------------------------------------------------------ bounds
\* Number of game states of a description in the transition engine (Spec).
MaxNodes == 4
\* Number of game states of a description in the findCommonAncestor calls (SpecFCA).
FcaNodes == 6
\* Largest number of system objects attached to one game state.
MaxUnits == 2
\* Number of game states of a description handed to the constructor (SpecBuild).
DescNodes == 3
\* Largest number of child names a description handed to the constructor declares.
MaxClaims == 2
\* Number of game states of a tree the host program calls (SpecHost).
HostNodes == 3
\* Largest number of changeState calls one handler of the host program makes.
MaxCalls == 2
\* Largest number of registrations an EventGameSystem holds (SpecEvents).
MaxListeners == 3

\* --------------------------------------------------------------- constants
MAXIMUM_STATE_CHANGES == 10
NULL == 0

VARIABLES
    stateMap,        \* StateTree.stateMap: the names of the game states, in description order
    childNames,      \* GameState.childNames, per state: the declared child names
    mainName,        \* desc.main, NULL when the description has none
    parent,          \* GameState.parent, per state
    children,        \* GameState.children, per state: the resolved children in Map order
    activeState,     \* StateTree.activeState
    pendingState,    \* StateTree.pendingState
    defaultState,    \* StateTree.defaultState
    tickRequested,   \* StateTree._tickRequested
    tickQueue,       \* number of _onApplyTick callbacks queued by process.nextTick
    pc,              \* position of the single thread: "constructed", "idle", "commit"
    caller,          \* the handler whose commitStateChange call is running
    counter,         \* commitStateChange's local counter
    log,             \* callbacks invoked by the last step, in call order
    lastError,       \* message of the error thrown by the last handler, "" if none
    lastCommit,      \* the last iteration of commitStateChange's loop
    fca,             \* the last direct call of StateTree.findCommonAncestor
    ctorArgs,        \* the arguments [systemFactory, desc] of the constructor call
    systemMap,       \* StateTree.systemMap: instance name -> system object
    call,            \* the call the host program makes on the tree, and its result
    eventListeners   \* EventGameSystem.eventListeners: event name -> registrations

vars == <<stateMap, childNames, mainName, parent, children, activeState, pendingState,
          defaultState, tickRequested, tickQueue, pc, caller, counter, log,
          lastError, lastCommit, fca, ctorArgs, systemMap, call, eventListeners>>

\* ------------------------------------------------------------ descriptions
\* Sequence of the elements of a set of numbers, ascending.
RECURSIVE SortedSeq(_)
SortedSeq(S) ==
    IF S = {} THEN <<>>
    ELSE LET m == CHOOSE x \in S : \A y \in S : x <= y
         IN <<m>> \o SortedSeq(S \ {m})

\* Every forest over the states 1..n in which each state is declared before its
\* children: every shape of forest, up to the names of the states.
OrderedForests(n) ==
    {par \in [1..n -> 0..(n - 1)] : \A x \in 1..n : par[x] < x}

\* The description entry 'children' of each state of a forest.
DescOf(par) ==
    [n \in DOMAIN par |-> SortedSeq({c \in DOMAIN par : par[c] = n})]

\* The system objects attached to a state, in attachment order (GameState.gameSystems).
NumUnits(n) == n % (MaxUnits + 1)
gameSystems(n) == [k \in 1..NumUnits(n) |-> <<n, k>>]

\* --------------------------------------------------------------- GameState
getState(map, name) ==
    IF \E i \in 1..Len(map) : map[i] = name THEN name ELSE NULL

ErrMissingChild == "Unable to resolve hierarchy, state could not be found."
ErrMultipleParents == "GameState was referenced by multiple parents."

\* Mutant: a child that already has a parent is taken over by the later claim.
RECURSIVE resolveChildrenFrom_noParentCheck(_, _, _, _, _)
resolveChildrenFrom_noParentCheck(map, names, self, i, t) ==
    IF i > Len(names[self]) THEN t
    ELSE LET name == names[self][i]
             child == getState(map, name)
         IN IF child = NULL THEN [t EXCEPT !.error = ErrMissingChild]
            ELSE resolveChildrenFrom_noParentCheck(map, names, self, i + 1,
                    [t EXCEPT !.children[self] = Append(@, child),
                              !.parent[child] = self])

\* GameState.resolveChildren from childNames[self][i] on; t = [parent, children, error].
RECURSIVE resolveChildrenFrom(_, _, _, _, _)
resolveChildrenFrom(map, names, self, i, t) ==
    IF i > Len(names[self]) THEN t
    ELSE LET name == names[self][i]
             child == getState(map, name)
         IN IF child = NULL THEN [t EXCEPT !.error = ErrMissingChild]
            ELSE IF t.parent[child] # NULL THEN [t EXCEPT !.error = ErrMultipleParents]
            ELSE resolveChildrenFrom(map, names, self, i + 1,
                    [t EXCEPT !.children[self] = Append(@, child),
                              !.parent[child] = self])

resolveChildren(map, names, self, t) == resolveChildrenFrom(map, names, self, 1, t)

\* The loop of StateTree.onInitialize over stateMap.values() calling resolveChildren.
RECURSIVE resolveAllFrom(_, _, _, _)
resolveAllFrom(map, names, i, t) ==
    IF i > Len(map) \/ t.error # "" THEN t
    ELSE resolveAllFrom(map, names, i + 1, resolveChildren(map, names, map[i], t))

resolveAll(map, names, par, chl) ==
    resolveAllFrom(map, names, 1, [parent |-> par, children |-> chl, error |-> ""])

RECURSIVE checkParentHierarchy(_, _, _)
checkParentHierarchy(par, self, state) ==
    IF self = state THEN TRUE
    ELSE IF par[self] # NULL THEN checkParentHierarchy(par, par[self], state)
    ELSE FALSE

\* --------------------------------------------------- findCommonAncestor
ErrStateA == "findCommonAncestor - stateA was invalid."
ErrStateB == "findCommonAncestor - stateB was invalid."

Return(v) == [kind |-> "return", value |-> v, error |-> ""]
Throw(msg) == [kind |-> "throw", value |-> NULL, error |-> msg]

\* Mutant: only stateB's hierarchy is searched, never stateA's.
RECURSIVE fcaScan_oneSided(_, _, _, _, _)
fcaScan_oneSided(par, stateA, stateB, scanA, scanB) ==
    IF scanA # NULL /\ scanB # NULL
    THEN IF checkParentHierarchy(par, stateB, scanA) THEN scanA
         ELSE fcaScan_oneSided(par, stateA, stateB, par[scanA], par[scanB])
    ELSE NULL

\* Mutant: the two scans are compared with each other only, as if both states were
\* equally deep.
RECURSIVE fcaScan_lockStep(_, _, _, _, _)
fcaScan_lockStep(par, stateA, stateB, scanA, scanB) ==
    IF scanA # NULL /\ scanB # NULL
    THEN IF scanA = scanB THEN scanA
         ELSE fcaScan_lockStep(par, stateA, stateB, par[scanA], par[scanB])
    ELSE NULL

\* The while loop of findCommonAncestor.
RECURSIVE fcaScan(_, _, _, _, _)
fcaScan(par, stateA, stateB, scanA, scanB) ==
    IF scanA # NULL /\ scanB # NULL
    THEN IF checkParentHierarchy(par, stateB, scanA) THEN scanA
         ELSE IF checkParentHierarchy(par, stateA, scanB) THEN scanB
         ELSE fcaScan(par, stateA, stateB, par[scanA], par[scanB])
    ELSE NULL

\* Mutant: stateB is validated before stateA.
findCommonAncestor_checksBFirst(par, stateA, stateB) ==
    IF stateB = NULL THEN Throw(ErrStateB)
    ELSE IF stateA = NULL THEN Throw(ErrStateA)
    ELSE IF stateA = stateB THEN Return(stateA)
    ELSE Return(fcaScan(par, stateA, stateB, par[stateA], par[stateB]))

findCommonAncestor(par, stateA, stateB) ==
    IF stateA = NULL THEN Throw(ErrStateA)
    ELSE IF stateB = NULL THEN Throw(ErrStateB)
    ELSE IF stateA = stateB THEN Return(stateA)
    ELSE Return(fcaScan(par, stateA, stateB, par[stateA], par[stateB]))

\* ------------------------------------------------------ GameState cascades
\* A callback invocation: kind, the game state, and the index of the unit in the
\* state's gameSystems (0 for a call of the GameState method itself).
Ev(kind, n, k) == <<kind, n, k>>

\* JavaScript values of a 'length' property.
Undefined == [t |-> "undefined", v |-> 0]
Number(x) == [t |-> "number", v |-> x]

\* 'this.gameSystems.values().length': Map.prototype.values() returns an iterator
\* object, which has no 'length' property.
valuesLength(systems) == Undefined

\* The indices visited by 'for (index = length - 1; index >= 0; index--)':
\* undefined - 1 is NaN and NaN >= 0 is false, so no index is visited then.
downwardIndices(length) ==
    IF length.t = "number" THEN [j \in 1..length.v |-> length.v - j] ELSE <<>>

\* 'for (const system of this.gameSystems.values()) system.o.<kind>()'
forEachSystem(kind, self) ==
    [k \in 1..Len(gameSystems(self)) |-> Ev(kind, self, k)]

\* Mutant: the cascade does not stop at the branch root.
RECURSIVE onEnter_ignoresRoot(_, _, _)
onEnter_ignoresRoot(par, self, branchRoot) ==
    <<Ev("onEnter", self, 0)>>
    \o (IF par[self] # NULL
        THEN onEnter_ignoresRoot(par, par[self], branchRoot) ELSE <<>>)
    \o forEachSystem("onActivate", self)

\* Mutant: the state's own units are activated before the parent is entered.
RECURSIVE onEnter_unitsFirst(_, _, _)
onEnter_unitsFirst(par, self, branchRoot) ==
    <<Ev("onEnter", self, 0)>>
    \o forEachSystem("onActivate", self)
    \o (IF par[self] # NULL /\ par[self] # branchRoot
        THEN onEnter_unitsFirst(par, par[self], branchRoot) ELSE <<>>)

RECURSIVE onEnter(_, _, _)
onEnter(par, self, branchRoot) ==
    <<Ev("onEnter", self, 0)>>
    \o (IF par[self] # NULL /\ par[self] # branchRoot
        THEN onEnter(par, par[self], branchRoot) ELSE <<>>)
    \o forEachSystem("onActivate", self)

RECURSIVE onExit(_, _, _)
onExit(par, self, branchRoot) ==
    LET idx == downwardIndices(valuesLength(gameSystems(self)))
    IN <<Ev("onExit", self, 0)>>
       \o [j \in 1..Len(idx) |-> Ev("onDeactivate", self, idx[j] + 1)]
       \o (IF par[self] # NULL /\ par[self] # branchRoot
           THEN onExit(par, par[self], branchRoot) ELSE <<>>)

\* GameState.onDestroy: the children by downward index, then the state's own units by
\* downward index; both loops run to 'values().length - 1'.
RECURSIVE onDestroyState(_, _)
RECURSIVE onDestroyChildren(_, _, _, _)
onDestroyState(chl, self) ==
    LET systemIdx == downwardIndices(valuesLength(gameSystems(self)))
    IN <<Ev("onDestroyState", self, 0)>>
       \o onDestroyChildren(chl, chl[self], downwardIndices(valuesLength(chl[self])), 1)
       \o [j \in 1..Len(systemIdx) |-> Ev("onDestroy", self, systemIdx[j] + 1)]
onDestroyChildren(chl, cs, idx, j) ==
    IF j > Len(idx) THEN <<>>
    ELSE onDestroyState(chl, cs[idx[j] + 1]) \o onDestroyChildren(chl, cs, idx, j + 1)

\* The loop of StateTree.onDestroy over the root states.
RECURSIVE destroyRoots(_, _, _, _)
destroyRoots(map, par, chl, i) ==
    IF i > Len(map) THEN <<>>
    ELSE (IF par[map[i]] = NULL THEN onDestroyState(chl, map[i]) ELSE <<>>)
         \o destroyRoots(map, par, chl, i + 1)

\* StateTree.onDestroy(): the callbacks it invokes and the active state it leaves.
onDestroy(map, par, chl, active) ==
    IF active # NULL
    THEN [events |-> onExit(par, active, NULL) \o destroyRoots(map, par, chl, 1),
          activeState |-> NULL]
    ELSE [events |-> <<>>, activeState |-> active]

\* GameState.onPostEnter: the enter cascade again, with the post-activate callback.
RECURSIVE onPostEnter(_, _, _)
onPostEnter(par, self, branchRoot) ==
    <<Ev("onPostEnter", self, 0)>>
    \o (IF par[self] # NULL /\ par[self] # branchRoot
        THEN onPostEnter(par, par[self], branchRoot) ELSE <<>>)
    \o forEachSystem("onPostActivate", self)

\* Whether a unit defines the optional onUpdate / onPostUpdate callbacks.
hasOnUpdate(n, k) == k % 2 = 1

\* Mutant: every unit is updated, whether or not it defines the callback.
RECURSIVE onUpdate_noCallbackCheck(_, _)
onUpdate_noCallbackCheck(par, self) ==
    <<Ev("onUpdate", self, 0)>>
    \o (IF par[self] # NULL THEN onUpdate_noCallbackCheck(par, par[self]) ELSE <<>>)
    \o forEachSystem("onUpdateSystem", self)

\* Mutant: the update is not passed on to the parent.
onUpdate_ownUnitsOnly(par, self) ==
    <<Ev("onUpdate", self, 0)>>
    \o SelectSeq(forEachSystem("onUpdateSystem", self), LAMBDA e : hasOnUpdate(e[2], e[3]))

RECURSIVE onUpdate(_, _)
onUpdate(par, self) ==
    <<Ev("onUpdate", self, 0)>>
    \o (IF par[self] # NULL THEN onUpdate(par, par[self]) ELSE <<>>)
    \o SelectSeq(forEachSystem("onUpdateSystem", self), LAMBDA e : hasOnUpdate(e[2], e[3]))

\* GameState.onPostUpdate: the leaf's units first, then each ancestor's.
RECURSIVE onPostUpdate(_, _)
onPostUpdate(par, self) ==
    <<Ev("onPostUpdate", self, 0)>>
    \o SelectSeq(forEachSystem("onPostUpdateSystem", self), LAMBDA e : hasOnUpdate(e[2], e[3]))
    \o (IF par[self] # NULL THEN onPostUpdate(par, par[self]) ELSE <<>>)

\* GameState.onInitialize: the state's units, then each child in Map order.
RECURSIVE onInitializeState(_, _)
RECURSIVE onInitializeChildren(_, _, _)
onInitializeState(chl, self) ==
    <<Ev("onInitializeState", self, 0)>>
    \o forEachSystem("onInitialize", self)
    \o onInitializeChildren(chl, chl[self], 1)
onInitializeChildren(chl, cs, i) ==
    IF i > Len(cs) THEN <<>>
    ELSE onInitializeState(chl, cs[i]) \o onInitializeChildren(chl, cs, i + 1)

\* Mutant: only the first state of the map is initialized.
initializeRoots_firstStateOnly(map, par, chl, i) ==
    IF par[map[1]] = NULL THEN onInitializeState(chl, map[1]) ELSE <<>>

\* The loop of StateTree.onInitialize over the root states.
RECURSIVE initializeRoots(_, _, _, _)
initializeRoots(map, par, chl, i) ==
    IF i > Len(map) THEN <<>>
    ELSE (IF par[map[i]] = NULL THEN onInitializeState(chl, map[i]) ELSE <<>>)
         \o initializeRoots(map, par, chl, i + 1)

\* Whether a sequence of callbacks runs code of a system object.
RunsUnitCode(events) == \E i \in 1..Len(events) : events[i][3] # 0

\* --------------------------------------------------------------- StateTree
Leaves(chl) == {n \in DOMAIN chl : Len(chl[n]) = 0}

ErrNoInitArgs == "StateTree.onInitialize - No InitArgs object was provided."
ErrNoStateName == "StateTree.changeState - No state was specified for transfer."
ErrStateNotFound == "StateTree.changeState - Requested state could not be found."
ErrNotLeaf == "StateTree.changeState - Requested state was not a leaf node."
ErrTooManyChanges == "StateTree.commitStateChange - Too many state changes occurred in the frame."

\* Mutant: the counter is compared before it is incremented ('counter++ > ...').
exceedsLimit_postIncrement(c) == c > MAXIMUM_STATE_CHANGES

\* '++counter > MAXIMUM_STATE_CHANGES' on the counter's value before the test.
exceedsLimit(c) == c + 1 > MAXIMUM_STATE_CHANGES

\* The constructor's choice of the default state: desc.main || desc.states[0].name.
constructorDefault(map, main) ==
    getState(map, IF main # NULL THEN main ELSE map[1])

\* Mutant: the state is made pending before it is checked to be a leaf.
changeState_pendingBeforeLeafCheck(map, chl, t, stateName) ==
    IF stateName = NULL THEN [t EXCEPT !.error = ErrNoStateName]
    ELSE LET state == getState(map, stateName)
         IN IF state = NULL THEN [t EXCEPT !.error = ErrStateNotFound]
            ELSE IF Len(chl[state]) # 0
            THEN [t EXCEPT !.pendingState = state, !.error = ErrNotLeaf]
            ELSE [t EXCEPT !.pendingState = state,
                           !.tickRequested = TRUE,
                           !.tickQueue = IF t.tickRequested THEN @ ELSE @ + 1]

\* Mutant: a request does not replace a state that is already pending.
changeState_keepsPending(map, chl, t, stateName) ==
    IF stateName = NULL THEN [t EXCEPT !.error = ErrNoStateName]
    ELSE LET state == getState(map, stateName)
         IN IF state = NULL THEN [t EXCEPT !.error = ErrStateNotFound]
            ELSE IF Len(chl[state]) # 0 THEN [t EXCEPT !.error = ErrNotLeaf]
            ELSE [t EXCEPT !.pendingState = IF @ = NULL THEN state ELSE @,
                           !.tickRequested = TRUE,
                           !.tickQueue = IF t.tickRequested THEN @ ELSE @ + 1]

\* Mutant: every successful request schedules another call of _onApplyTick.
changeState_alwaysSchedules(map, chl, t, stateName) ==
    IF stateName = NULL THEN [t EXCEPT !.error = ErrNoStateName]
    ELSE LET state == getState(map, stateName)
         IN IF state = NULL THEN [t EXCEPT !.error = ErrStateNotFound]
            ELSE IF Len(chl[state]) # 0 THEN [t EXCEPT !.error = ErrNotLeaf]
            ELSE [t EXCEPT !.pendingState = state,
                           !.tickRequested = TRUE,
                           !.tickQueue = @ + 1]

\* StateTree.changeState on t = [pendingState, tickRequested, tickQueue, error].
changeState(map, chl, t, stateName) ==
    IF stateName = NULL THEN [t EXCEPT !.error = ErrNoStateName]
    ELSE LET state == getState(map, stateName)
         IN IF state = NULL THEN [t EXCEPT !.error = ErrStateNotFound]
            ELSE IF Len(chl[state]) # 0 THEN [t EXCEPT !.error = ErrNotLeaf]
            ELSE [t EXCEPT !.pendingState = state,
                           !.tickRequested = TRUE,
                           !.tickQueue = IF t.tickRequested THEN @ ELSE @ + 1]

\* The requests a callback run may end with: none, or changeState of a leaf.
Requests(events) == IF RunsUnitCode(events) THEN {NULL} \cup Leaves(children) ELSE {NULL}

NoCommit == [taken |-> NULL, from |-> NULL, root |-> NULL]
NoFca == [a |-> NULL, b |-> NULL, res |-> [kind |-> "none", value |-> NULL, error |-> ""]]

\* No call of the host program is planned; no event has a list of registrations.
NoCall == [op |-> "none"]
NoListeners == <<>>

\* Mutant: the taken state is not compared with the active state.
commitIteration_noSelfCheck(par, active, taken) ==
    LET rootState == IF active # NULL
                     THEN findCommonAncestor(par, active, taken).value ELSE NULL
    IN [root |-> rootState,
        events |-> (IF active # NULL THEN onExit(par, active, rootState) ELSE <<>>)
                   \o onEnter(par, taken, rootState)
                   \o onPostEnter(par, taken, rootState)]

\* Mutant: the post-enter cascade is invoked before the enter cascade.
commitIteration_postEnterFirst(par, active, taken) ==
    IF taken # active
    THEN LET rootState == IF active # NULL
                          THEN findCommonAncestor(par, active, taken).value ELSE NULL
         IN [root |-> rootState,
             events |-> (IF active # NULL THEN onExit(par, active, rootState) ELSE <<>>)
                        \o onPostEnter(par, taken, rootState)
                        \o onEnter(par, taken, rootState)]
    ELSE [root |-> NULL, events |-> <<>>]

\* One iteration of commitStateChange's loop on the taken state: the callbacks it
\* invokes, in call order, and the branch root it used.
commitIteration(par, active, taken) ==
    IF taken # active
    THEN LET rootState == IF active # NULL
                          THEN findCommonAncestor(par, active, taken).value ELSE NULL
         IN [root |-> rootState,
             events |-> (IF active # NULL THEN onExit(par, active, rootState) ELSE <<>>)
                        \o onEnter(par, taken, rootState)
                        \o onPostEnter(par, taken, rootState)]
    ELSE [root |-> NULL, events |-> <<>>]

TreeUnchanged ==
    UNCHANGED <<stateMap, childNames, mainName, parent, children, defaultState,
                ctorArgs, systemMap, call, eventListeners>>

\* ------------------------------------------------------------ construction
ErrNoFactory == "StateTree.constructor - A valid system factory must be supplied during construction."
ErrNoDescription == "StateTree.constructor - No description was provided."
ErrNoMainState == "StateTree.constructor - Could not find main state for processing."
ErrSystemExists == "StateTree.createSystem - System object already exists!"
ErrNoSystemType == "StateTree.createSystem - Could not find system object type."

\* The instance name of unit k of state n in a description that gives every unit a
\* name of its own; a unit's type name is its instance name (the string form of a
\* 'systems' entry).
systemName(n, k) == (n - 1) * MaxUnits + k

\* A type name the factory of a tree of n states has not registered.
UnknownType(n) == n * MaxUnits + 1

\* An absent factory argument, and a factory that creates an object for each of the
\* type names systemName gives for n states.
NoFactory == [given |-> FALSE, types |-> {}]
Factory(n) == [given |-> TRUE, types |-> {systemName(s, k) : s \in 1..n, k \in 1..MaxUnits}]

\* Whether systemFactory.create(typeName) returns an object.
factoryCreate(factory, typeName) == typeName \in factory.types

\* Map.prototype.get(key) is an object, hence truthy, exactly when the key is set.
mapHas(m, key) == key \in DOMAIN m
\* Map.prototype.set(key, value)
mapSet(m, key, value) == [x \in DOMAIN m \cup {key} |-> IF x = key THEN value ELSE m[x]]

\* Mutant: an existing name is not looked up, the new object replaces the old one.
createSystem_overwrites(factory, t, name, type, o) ==
    LET typeName == IF type # NULL THEN type ELSE name
    IN IF ~factoryCreate(factory, typeName) THEN [t EXCEPT !.error = ErrNoSystemType]
       ELSE [t EXCEPT !.systemMap = mapSet(@, name, o)]

\* StateTree.createSystem(name, type) on t, a record with the fields systemMap and
\* error; o is the object the factory creates.
createSystem(factory, t, name, type, o) ==
    IF mapHas(t.systemMap, name) THEN [t EXCEPT !.error = ErrSystemExists]
    ELSE LET typeName == IF type # NULL THEN type ELSE name
         IN IF ~factoryCreate(factory, typeName) THEN [t EXCEPT !.error = ErrNoSystemType]
            ELSE [t EXCEPT !.systemMap = mapSet(@, name, o)]

\* GameState._createSystem(stateTree, desc) for entry k of the 'systems' of state self;
\* the object becomes entry k of the state's gameSystems, the unit <<self, k>>.
_createSystem(factory, t, self, k, desc) ==
    createSystem(factory, t, desc, desc, <<self, k>>)

\* new GameState(stateTree, desc): the loop over desc.systems from entry k on.
RECURSIVE GameState(_, _, _, _)
GameState(factory, t, desc, k) ==
    IF t.error # "" \/ k > Len(desc.systems) THEN t
    ELSE GameState(factory, _createSystem(factory, t, desc.name, k, desc.systems[k]),
                   desc, k + 1)

\* The constructor's loop over desc.states from entry i on.
RECURSIVE constructStates(_, _, _, _)
constructStates(factory, t, states, i) ==
    IF t.error # "" \/ i > Len(states) THEN t
    ELSE LET g == GameState(factory, t, states[i], 1)
         IN constructStates(factory,
                IF g.error # "" THEN g
                ELSE [g EXCEPT !.stateMap = Append(@, states[i].name),
                               !.childNames = Append(@, states[i].children)],
                states, i + 1)

\* The desc argument: absent, without a 'states' property, or with state descriptions.
NoDesc == [given |-> FALSE, hasStates |-> FALSE, states |-> <<>>, main |-> NULL]
EmptyDesc == [given |-> TRUE, hasStates |-> FALSE, states |-> <<>>, main |-> NULL]
Desc(states, main) == [given |-> TRUE, hasStates |-> TRUE, states |-> states, main |-> main]
StateDesc(name, chl, systems) == [name |-> name, children |-> chl, systems |-> systems]

\* Mutant: the description is checked before the factory.
constructor_checksDescFirst(factory, desc) ==
    LET t == [error |-> "", stateMap |-> <<>>, childNames |-> <<>>, systemMap |-> <<>>,
              defaultState |-> NULL, mainName |-> NULL]
    IN IF ~desc.given THEN [t EXCEPT !.error = ErrNoDescription]
       ELSE IF ~factory.given THEN [t EXCEPT !.error = ErrNoFactory]
       ELSE t

\* new StateTree(systemFactory, desc): the fields of the new tree, or the error thrown.
constructor(factory, desc) ==
    LET t == [error |-> "", stateMap |-> <<>>, childNames |-> <<>>, systemMap |-> <<>>,
              defaultState |-> NULL, mainName |-> NULL]
    IN IF ~factory.given THEN [t EXCEPT !.error = ErrNoFactory]
       ELSE IF ~desc.given THEN [t EXCEPT !.error = ErrNoDescription]
       ELSE IF ~desc.hasStates THEN t
       ELSE LET c == constructStates(factory, t, desc.states, 1)
                d == constructorDefault(c.stateMap, desc.main)
            IN IF c.error # "" THEN c
               ELSE IF d = NULL
               THEN [c EXCEPT !.error = ErrNoMainState, !.mainName = desc.main]
               ELSE [c EXCEPT !.defaultState = d, !.mainName = desc.main]

\* The description of a forest whose units have names of their own.
defaultSystems(n) == [k \in 1..NumUnits(n) |-> systemName(n, k)]
TreeDesc(par, main) ==
    Desc([n \in DOMAIN par |-> StateDesc(n, DescOf(par)[n], defaultSystems(n))], main)

\* ------------------------------------------------- update context and parameters
\* JavaScript values a description declares for a parameter; String(NULL) is the
\* empty string, any other String(x) the name with the number x.
String(x) == [t |-> "string", v |-> x]
Null == [t |-> "null", v |-> 0]
\* A system object and a StateRef handle, as values.
SystemObject(o) == [t |-> "system", v |-> o]
StateRef(stateName) == [t |-> "stateRef", v |-> stateName]

\* Whether a declared value passes 'if (configParams && configParams[paramName])'.
truthy(x) ==
    \/ x.t = "string" /\ x.v # NULL
    \/ x.t = "number" /\ x.v # 0

ErrNoStateTree == "UpdateArgs.requestState - Cannot request state, stateTree is invalid."
ErrNotAFunction == "TypeError: this.stateTree.requestState is not a function"
ErrNotString == "StateRef.extractValue - Declaration was not of string type."
ErrSystemNotFound == "SystemRef.extractValue - Referenced system object could not be found."

\* The methods class StateTree defines.
StateTreeMethods ==
    {"onInitialize", "onDestroy", "onUpdate", "changeState", "createSystem", "getState",
     "_onApplyTick"}

\* UpdateArgs.requestState(name) on t = [pendingState, tickRequested, tickQueue, error];
\* hasTree tells whether updateArgs.stateTree is set.  The call
\* 'this.stateTree.requestState(name)' of a method the tree does not define throws a
\* TypeError.
requestState(hasTree, map, chl, t, name) ==
    IF ~hasTree THEN [t EXCEPT !.error = ErrNoStateTree]
    ELSE IF "requestState" \notin StateTreeMethods THEN [t EXCEPT !.error = ErrNotAFunction]
    ELSE changeState(map, chl, t, name)

\* Mutant: the unit is looked up in the whole tree, as StateTree.systemMap would.
findSystem_wholeTree(par, self, name) ==
    IF \E n \in DOMAIN par : \E k \in 1..NumUnits(n) : systemName(n, k) = name
    THEN LET n == CHOOSE m \in DOMAIN par : \E k \in 1..NumUnits(m) : systemName(m, k) = name
         IN SystemObject(<<n, CHOOSE k \in 1..NumUnits(n) : systemName(n, k) = name>>)
    ELSE Null

\* GameState.findSystem(name): the state's own gameSystems, then the parent's.
RECURSIVE findSystem(_, _, _)
findSystem(par, self, name) ==
    IF \E k \in 1..NumUnits(self) : defaultSystems(self)[k] = name
    THEN SystemObject(<<self, CHOOSE k \in 1..NumUnits(self) : defaultSystems(self)[k] = name>>)
    ELSE IF par[self] # NULL THEN findSystem(par, par[self], name) ELSE Null

\* InitArgs.getSystem(name); initArgs = [state], the state being initialized.
getSystem(par, initArgs, name) ==
    IF initArgs.state # NULL THEN findSystem(par, initArgs.state, name) ELSE Null

\* SystemRefParameter.extractValue(desc, initArgs)
SystemRef_extractValue(par, desc, initArgs) ==
    IF desc.t # "string" THEN Throw(ErrNotString)
    ELSE LET systemObject == getSystem(par, initArgs, desc.v)
         IN IF systemObject.t = "null" THEN Throw(ErrSystemNotFound)
            ELSE Return(systemObject)

\* StateRefParameter.extractValue(desc, initArgs)
StateRef_extractValue(desc, initArgs) ==
    IF desc.t # "string" THEN Throw(ErrNotString)
    ELSE Return(StateRef(desc.v))

\* The parameter types registered by registerParams.
ParameterTypes == {"ref:system", "ref:state"}

\* One iteration of GameState._applyParameters: the value a parameter of a unit of
\* the state initArgs.state gets from the declared value.
_applyParameters(par, initArgs, type, declared) ==
    IF truthy(declared)
    THEN IF type = "ref:system" THEN SystemRef_extractValue(par, declared, initArgs)
         ELSE StateRef_extractValue(declared, initArgs)
    ELSE Return(Null)

\* StateRef.apply() on t = [pendingState, tickRequested, tickQueue, error].
StateRef_apply(map, chl, t, ref) == changeState(map, chl, t, ref.v)

\* A host handler calling changeState for each name of a list, from names[i] on; an
\* error ends the handler.
RECURSIVE changeStates(_, _, _, _, _)
changeStates(map, chl, t, names, i) ==
    IF i > Len(names) \/ t.error # "" THEN t
    ELSE changeStates(map, chl, changeState(map, chl, t, names[i]), names, i + 1)

\* ------------------------------------------------------------- EventGameSystem
\* A registration {f: handler, o: obj}.
Listener(handler, obj) == [f |-> handler, o |-> obj]

\* EventGameSystem.addListener(name, handler, obj) on the eventListeners map.
addListener(listeners, name, handler, obj) ==
    LET m == IF ~mapHas(listeners, name) THEN mapSet(listeners, name, <<>>) ELSE listeners
    IN mapSet(m, name, Append(m[name], Listener(handler, obj)))

\* 'listeners.splice(loop, 1)' on a list indexed from 1.
splice(list, i) == SubSeq(list, 1, i - 1) \o SubSeq(list, i + 1, Len(list))

\* Mutant: every registration that matches is removed.
removeFrom_allMatching(list, loop, l, handler, obj) ==
    SelectSeq(list, LAMBDA r : ~(r.f = handler /\ r.o = obj))

\* The loop of removeListener from index 'loop' on; l is the length of the list when
\* the loop started.
RECURSIVE removeFrom(_, _, _, _, _)
removeFrom(list, loop, l, handler, obj) ==
    IF loop > l THEN list
    ELSE IF list[loop].f = handler /\ list[loop].o = obj THEN splice(list, loop)
    ELSE removeFrom(list, loop + 1, l, handler, obj)

\* EventGameSystem.removeListener(name, handler, obj) on the eventListeners map.
removeListener(listeners, name, handler, obj) ==
    IF mapHas(listeners, name)
    THEN mapSet(listeners, name,
                removeFrom(listeners[name], 1, Len(listeners[name]), handler, obj))
    ELSE listeners

\* What the callbacks of a fired event do: nothing to the registrations, or the
\* callback of the registration 'by' calls removeListener for the registration
\* 'whom' of the fired event each time it is invoked.
Callbacks(handlers, objects) ==
    LET regs == {Listener(f, o) : f \in handlers, o \in objects}
        some == CHOOSE r \in regs : TRUE
    IN {[unregisters |-> FALSE, by |-> some, whom |-> some]}
       \cup [unregisters : {TRUE}, by : regs, whom : regs]

\* 'for (const handler of listeners)' of fire from index i on: the array iterator
\* reads the length and the element of the live array at each step, and the array
\* is the one removeListener splices.  Returns the array as it is left and the
\* registrations whose callbacks were invoked, in order.
RECURSIVE fireFrom(_, _, _, _)
fireFrom(list, i, cb, notified) ==
    IF i > Len(list) THEN [list |-> list, notified |-> notified]
    ELSE LET handler == list[i]
             after == IF cb.unregisters /\ cb.by = handler
                      THEN removeFrom(list, 1, Len(list), cb.whom.f, cb.whom.o)
                      ELSE list
         IN fireFrom(after, i + 1, cb, Append(notified, handler))

\* EventGameSystem.fire(name, data) on the eventListeners map.
fire(listeners, name, cb) ==
    IF mapHas(listeners, name)
    THEN LET r == fireFrom(listeners[name], 1, cb, <<>>)
         IN [listeners |-> mapSet(listeners, name, r.list), notified |-> r.notified]
    ELSE [listeners |-> listeners, notified |-> <<>>]

\* new StateTree(systemFactory, desc): the state after construction.
Init ==
    \E par \in OrderedForests(MaxNodes), main \in 0..MaxNodes :
        /\ stateMap = [i \in 1..MaxNodes |-> i]
        /\ childNames = DescOf(par)
        /\ mainName = main
        /\ parent = [n \in 1..MaxNodes |-> NULL]
        /\ children = [n \in 1..MaxNodes |-> <<>>]
        /\ activeState = NULL
        /\ pendingState = NULL
        /\ defaultState = constructorDefault(stateMap, main)
        /\ tickRequested = FALSE
        /\ tickQueue = 0
        /\ pc = "constructed"
        /\ caller = "none"
        /\ counter = 0
        /\ log = <<>>
        /\ lastError = ""
        /\ lastCommit = NoCommit
        /\ fca = NoFca
        /\ ctorArgs = [systemFactory |-> Factory(MaxNodes), desc |-> TreeDesc(par, main)]
        /\ systemMap = constructor(Factory(MaxNodes), TreeDesc(par, main)).systemMap
        /\ call = NoCall
        /\ eventListeners = NoListeners

\* StateTree.onInitialize(initArgs), up to its call of commitStateChange; req is the
\* last state a unit's onInitialize callback passed to changeState, if any.
OnInitialize(initArgs, req) ==
    /\ pc = "constructed"
    /\ LET t == resolveAll(stateMap, childNames, parent, children)
           events == initializeRoots(stateMap, t.parent, t.children, 1)
           c == changeState(stateMap, t.children,
                    [pendingState |-> defaultState, tickRequested |-> tickRequested,
                     tickQueue |-> tickQueue, error |-> ""], req)
       IN IF ~initArgs
          THEN /\ req = NULL
               /\ lastError' = ErrNoInitArgs
               /\ UNCHANGED <<parent, children, pendingState, pc, caller, log,
                              tickRequested, tickQueue>>
          ELSE IF t.error # ""
          THEN /\ req = NULL
               /\ lastError' = t.error
               /\ parent' = t.parent
               /\ children' = t.children
               /\ UNCHANGED <<pendingState, pc, caller, log, tickRequested, tickQueue>>
          ELSE /\ req \in (IF RunsUnitCode(events)
                           THEN {NULL} \cup Leaves(t.children) ELSE {NULL})
               /\ lastError' = ""
               /\ parent' = t.parent
               /\ children' = t.children
               /\ log' = events
               /\ IF req = NULL
                  THEN /\ pendingState' = defaultState
                       /\ UNCHANGED <<tickRequested, tickQueue>>
                  ELSE /\ pendingState' = c.pendingState
                       /\ tickRequested' = c.tickRequested
                       /\ tickQueue' = c.tickQueue
               /\ pc' = "commit"
               /\ caller' = "init"
    /\ counter' = 0
    /\ lastCommit' = NoCommit
    /\ UNCHANGED <<stateMap, childNames, mainName, defaultState, activeState, fca,
                   ctorArgs, systemMap, call, eventListeners>>

\* StateTree.onUpdate(updateArgs), up to its first call of commitStateChange.
OnUpdate ==
    /\ pc = "idle"
    /\ pc' = "commit"
    /\ caller' = "updatePre"
    /\ counter' = 0
    /\ log' = <<>>
    /\ lastError' = ""
    /\ lastCommit' = NoCommit
    /\ TreeUnchanged
    /\ UNCHANGED <<activeState, pendingState, tickRequested, tickQueue, fca>>

\* StateTree.changeState(stateName), called from outside the tree's callbacks.
ChangeState(stateName) ==
    /\ pc = "idle"
    /\ LET t == changeState(stateMap, children,
                    [pendingState |-> pendingState, tickRequested |-> tickRequested,
                     tickQueue |-> tickQueue, error |-> ""], stateName)
       IN /\ pendingState' = t.pendingState
          /\ tickRequested' = t.tickRequested
          /\ tickQueue' = t.tickQueue
          /\ lastError' = t.error
    /\ log' = <<>>
    /\ lastCommit' = NoCommit
    /\ TreeUnchanged
    /\ UNCHANGED <<activeState, pc, caller, counter, fca>>

\* StateTree._onApplyTick, run from the task queue, up to its call of commitStateChange.
ApplyTick ==
    /\ pc = "idle"
    /\ tickQueue > 0
    /\ tickQueue' = tickQueue - 1
    /\ IF pendingState # NULL
       THEN /\ pc' = "commit"
            /\ caller' = "tick"
            /\ UNCHANGED tickRequested
       ELSE /\ tickRequested' = FALSE
            /\ UNCHANGED <<pc, caller>>
    /\ counter' = 0
    /\ log' = <<>>
    /\ lastError' = ""
    /\ lastCommit' = NoCommit
    /\ TreeUnchanged
    /\ UNCHANGED <<activeState, pendingState, fca>>

\* Mutant: a request made by a callback ends the running transition after its exit
\* cascade; the requested state becomes pending while the old state stays active.
CommitIterate_requestCutsShort(req) ==
    /\ pc = "commit"
    /\ pendingState # NULL
    /\ ~exceedsLimit(counter)
    /\ LET it == commitIteration(parent, activeState, pendingState)
           t == changeState(stateMap, children,
                    [pendingState |-> NULL, tickRequested |-> tickRequested,
                     tickQueue |-> tickQueue, error |-> ""], req)
       IN /\ req \in Requests(it.events)
          /\ counter' = counter + 1
          /\ IF req = NULL
             THEN /\ activeState' = pendingState
                  /\ lastCommit' = [taken |-> pendingState, from |-> activeState,
                                    root |-> it.root]
                  /\ log' = it.events
                  /\ pendingState' = NULL
                  /\ UNCHANGED <<tickRequested, tickQueue>>
             ELSE /\ activeState' = activeState
                  /\ lastCommit' = NoCommit
                  /\ log' = SelectSeq(it.events, LAMBDA e : e[1] \in {"onExit", "onDeactivate"})
                  /\ pendingState' = t.pendingState
                  /\ tickRequested' = t.tickRequested
                  /\ tickQueue' = t.tickQueue
    /\ TreeUnchanged
    /\ UNCHANGED <<pc, caller, lastError, fca>>

\* commitStateChange: one iteration of 'while (stateTree.pendingState)'; req is the
\* last state a callback of this iteration passed to changeState, if any.
CommitIterate(req) ==
    /\ pc = "commit"
    /\ pendingState # NULL
    /\ ~exceedsLimit(counter)
    /\ LET it == commitIteration(parent, activeState, pendingState)
           t == changeState(stateMap, children,
                    [pendingState |-> NULL, tickRequested |-> tickRequested,
                     tickQueue |-> tickQueue, error |-> ""], req)
       IN /\ req \in Requests(it.events)
          /\ counter' = counter + 1
          /\ activeState' = pendingState
          /\ lastCommit' = [taken |-> pendingState, from |-> activeState, root |-> it.root]
          /\ log' = it.events
          /\ IF req = NULL
             THEN /\ pendingState' = NULL
                  /\ UNCHANGED <<tickRequested, tickQueue>>
             ELSE /\ pendingState' = t.pendingState
                  /\ tickRequested' = t.tickRequested
                  /\ tickQueue' = t.tickQueue
    /\ TreeUnchanged
    /\ UNCHANGED <<pc, caller, lastError, fca>>

\* Mutant: the request is taken off pendingState before the counter is tested, so
\* the failure drops it.
CommitThrow_dropsPending ==
    /\ pc = "commit"
    /\ pendingState # NULL
    /\ exceedsLimit(counter)
    /\ counter' = counter + 1
    /\ lastError' = ErrTooManyChanges
    /\ pc' = "idle"
    /\ caller' = "none"
    /\ log' = <<>>
    /\ lastCommit' = NoCommit
    /\ pendingState' = NULL
    /\ TreeUnchanged
    /\ UNCHANGED <<activeState, tickRequested, tickQueue, fca>>

\* commitStateChange: the counter exceeds MAXIMUM_STATE_CHANGES; the error leaves
\* commitStateChange and the handler that called it.
CommitThrow ==
    /\ pc = "commit"
    /\ pendingState # NULL
    /\ exceedsLimit(counter)
    /\ counter' = counter + 1
    /\ lastError' = ErrTooManyChanges
    /\ pc' = "idle"
    /\ caller' = "none"
    /\ log' = <<>>
    /\ lastCommit' = NoCommit
    /\ TreeUnchanged
    /\ UNCHANGED <<activeState, pendingState, tickRequested, tickQueue, fca>>

\* commitStateChange returns to onInitialize, to the end of onUpdate, or to
\* _onApplyTick, and the handler finishes.
CommitReturn ==
    /\ pc = "commit"
    /\ pendingState = NULL
    /\ caller \in {"init", "updatePost", "tick"}
    /\ tickRequested' = IF caller = "tick" THEN FALSE ELSE tickRequested
    /\ pc' = "idle"
    /\ caller' = "none"
    /\ counter' = 0
    /\ log' = <<>>
    /\ lastCommit' = NoCommit
    /\ TreeUnchanged
    /\ UNCHANGED <<activeState, pendingState, tickQueue, lastError, fca>>

\* Mutant: onUpdate returns after the update passes, without its second
\* commitStateChange call.
UpdatePasses_noSecondCommit(req) ==
    /\ pc = "commit"
    /\ pendingState = NULL
    /\ caller = "updatePre"
    /\ LET events == IF activeState # NULL
                     THEN onUpdate(parent, activeState) \o onPostUpdate(parent, activeState)
                     ELSE <<>>
           t == changeState(stateMap, children,
                    [pendingState |-> NULL, tickRequested |-> tickRequested,
                     tickQueue |-> tickQueue, error |-> ""], req)
       IN /\ req \in Requests(events)
          /\ log' = events
          /\ IF req = NULL
             THEN UNCHANGED <<pendingState, tickRequested, tickQueue>>
             ELSE /\ pendingState' = t.pendingState
                  /\ tickRequested' = t.tickRequested
                  /\ tickQueue' = t.tickQueue
    /\ pc' = "idle"
    /\ caller' = "none"
    /\ counter' = 0
    /\ lastCommit' = NoCommit
    /\ TreeUnchanged
    /\ UNCHANGED <<activeState, lastError, fca>>

\* onUpdate after its first commitStateChange: the update and post-update passes,
\* up to the second call of commitStateChange.
UpdatePasses(req) ==
    /\ pc = "commit"
    /\ pendingState = NULL
    /\ caller = "updatePre"
    /\ LET events == IF activeState # NULL
                     THEN onUpdate(parent, activeState) \o onPostUpdate(parent, activeState)
                     ELSE <<>>
           t == changeState(stateMap, children,
                    [pendingState |-> NULL, tickRequested |-> tickRequested,
                     tickQueue |-> tickQueue, error |-> ""], req)
       IN /\ req \in Requests(events)
          /\ log' = events
          /\ IF req = NULL
             THEN UNCHANGED <<pendingState, tickRequested, tickQueue>>
             ELSE /\ pendingState' = t.pendingState
                  /\ tickRequested' = t.tickRequested
                  /\ tickQueue' = t.tickQueue
    /\ caller' = "updatePost"
    /\ counter' = 0
    /\ lastCommit' = NoCommit
    /\ TreeUnchanged
    /\ UNCHANGED <<activeState, pc, lastError, fca>>

Next ==
    \/ \E initArgs \in BOOLEAN, req \in 0..MaxNodes : OnInitialize(initArgs, req)
    \/ OnUpdate
    \/ \E stateName \in 0..(MaxNodes + 1) : ChangeState(stateName)
    \/ ApplyTick
    \/ \E req \in 0..MaxNodes : CommitIterate(req)
    \/ CommitThrow
    \/ CommitReturn
    \/ \E req \in 0..MaxNodes : UpdatePasses(req)

Spec == Init /\ [][Next]_vars

\* ------------------------------------------- direct calls of findCommonAncestor
\* An initialized tree of FcaNodes states whose units request no transition, and
\* the two arguments of the call to come.
InitFCA ==
    \E par \in OrderedForests(FcaNodes), stateA \in 0..FcaNodes, stateB \in 0..FcaNodes :
        LET map == [i \in 1..FcaNodes |-> i]
            t == resolveAll(map, DescOf(par), [n \in 1..FcaNodes |-> NULL],
                            [n \in 1..FcaNodes |-> <<>>])
        IN /\ stateMap = map
           /\ childNames = DescOf(par)
           /\ mainName = NULL
           /\ parent = t.parent
           /\ children = t.children
           /\ defaultState = constructorDefault(map, NULL)
           /\ activeState = defaultState
           /\ pendingState = NULL
           /\ tickRequested = FALSE
           /\ tickQueue = 0
           /\ pc = "idle"
           /\ caller = "none"
           /\ counter = 0
           /\ log = <<>>
           /\ lastError = ""
           /\ lastCommit = NoCommit
           /\ fca = [a |-> stateA, b |-> stateB, res |-> NoFca.res]
           /\ ctorArgs = [systemFactory |-> Factory(FcaNodes), desc |-> TreeDesc(par, NULL)]
           /\ systemMap = constructor(Factory(FcaNodes), TreeDesc(par, NULL)).systemMap
           /\ call = NoCall
           /\ eventListeners = NoListeners

\* StateTree.findCommonAncestor(stateA, stateB), called on two states of the tree
\* (or null) as the unit tests do.
CallFindCommonAncestor ==
    /\ fca.res.kind = "none"
    /\ fca' = [fca EXCEPT !.res = findCommonAncestor(parent, fca.a, fca.b)]
    /\ UNCHANGED <<stateMap, childNames, mainName, parent, children, activeState,
                   pendingState, defaultState, tickRequested, tickQueue, pc, caller,
                   counter, log, lastError, lastCommit, ctorArgs, systemMap, call,
                   eventListeners>>

NextFCA == CallFindCommonAncestor

SpecFCA == InitFCA /\ [][NextFCA]_vars

\* ------------------------------------- construction and link resolution (SpecBuild)
\* A child claim <<n, c>>: the description of state n lists the state name c as a
\* child.
ChildClaims == (1..DescNodes) \X (1..DescNodes)
ClaimSeqs == UNION {[1..m -> ChildClaims] : m \in 0..MaxClaims}

\* A name that is the name of no state, and where a description lists it as a child:
\* nowhere (state 0), or first or last among the children of state n.
UnknownState == DescNodes + 1
Misses == {<<NULL, FALSE>>} \cup ((1..DescNodes) \X BOOLEAN)

\* desc.states[n].children for a sequence of child claims and a miss.
claimedBy(claims, miss, n) ==
    LET s == SelectSeq(claims, LAMBDA c : c[1] = n)
        known == [i \in 1..Len(s) |-> s[i][2]]
    IN IF miss[1] # n THEN known
       ELSE IF miss[2] THEN <<UnknownState>> \o known
       ELSE known \o <<UnknownState>>

\* Descriptions of DescNodes states with any child lists (a child claimed twice,
\* cycles, a missing name) and any 'main', whose units have names of their own.
LinkDescs ==
    {Desc([n \in 1..DescNodes |->
              StateDesc(n, claimedBy(cl, miss, n), defaultSystems(n))], main) :
        cl \in ClaimSeqs, miss \in Misses, main \in 0..UnknownState}

\* Descriptions of DescNodes parentless states in which every unit has a name of
\* its own, the name of the first unit of the first or of the second state, a name
\* that is no unit's own, or the name of an unregistered type.
BuildUnits == {u \in (1..DescNodes) \X (1..MaxUnits) : u[2] <= NumUnits(u[1])}
SharedNames ==
    <<systemName(1, 1), systemName(2, 1), systemName(DescNodes, MaxUnits),
      UnknownType(DescNodes)>>
SystemDescs ==
    {Desc([n \in 1..DescNodes |->
              StateDesc(n, <<>>,
                  [k \in 1..NumUnits(n) |->
                      IF naming[<<n, k>>] = 0 THEN systemName(n, k)
                      ELSE SharedNames[naming[<<n, k>>]]])], NULL) :
        naming \in [BuildUnits -> 0..Len(SharedNames)]}

\* The state before the constructor call: no tree yet.
NoTree ==
    /\ stateMap = <<>>
    /\ childNames = <<>>
    /\ mainName = NULL
    /\ parent = <<>>
    /\ children = <<>>
    /\ activeState = NULL
    /\ pendingState = NULL
    /\ defaultState = NULL
    /\ tickRequested = FALSE
    /\ tickQueue = 0
    /\ pc = "new"
    /\ caller = "none"
    /\ counter = 0
    /\ log = <<>>
    /\ lastError = ""
    /\ lastCommit = NoCommit
    /\ fca = NoFca
    /\ systemMap = <<>>
    /\ call = NoCall
    /\ eventListeners = NoListeners

\* The arguments of a constructor call, before the call.
InitBuild ==
    /\ ctorArgs \in [systemFactory : {Factory(DescNodes)},
                     desc : {NoDesc, EmptyDesc} \cup LinkDescs]
                    \cup [systemFactory : {NoFactory},
                          desc : {NoDesc, EmptyDesc,
                                  TreeDesc([n \in 1..DescNodes |-> NULL], NULL)}]
    /\ NoTree

\* Mutant: the constructor makes the default state pending.
Construct_requestsDefault ==
    /\ pc = "new"
    /\ LET t == constructor(ctorArgs.systemFactory, ctorArgs.desc)
       IN IF t.error # ""
          THEN /\ pc' = "failed"
               /\ lastError' = t.error
               /\ UNCHANGED <<stateMap, childNames, mainName, parent, children,
                              defaultState, systemMap, pendingState>>
          ELSE /\ pc' = "constructed"
               /\ lastError' = ""
               /\ stateMap' = t.stateMap
               /\ childNames' = t.childNames
               /\ mainName' = t.mainName
               /\ parent' = [n \in 1..Len(t.stateMap) |-> NULL]
               /\ children' = [n \in 1..Len(t.stateMap) |-> <<>>]
               /\ defaultState' = t.defaultState
               /\ systemMap' = t.systemMap
               /\ pendingState' = t.defaultState
    /\ UNCHANGED <<activeState, tickRequested, tickQueue, caller, counter,
                   log, lastCommit, fca, ctorArgs, call, eventListeners>>

\* new StateTree(systemFactory, desc)
Construct ==
    /\ pc = "new"
    /\ LET t == constructor(ctorArgs.systemFactory, ctorArgs.desc)
       IN IF t.error # ""
          THEN /\ pc' = "failed"
               /\ lastError' = t.error
               /\ UNCHANGED <<stateMap, childNames, mainName, parent, children,
                              defaultState, systemMap>>
          ELSE /\ pc' = "constructed"
               /\ lastError' = ""
               /\ stateMap' = t.stateMap
               /\ childNames' = t.childNames
               /\ mainName' = t.mainName
               /\ parent' = [n \in 1..Len(t.stateMap) |-> NULL]
               /\ children' = [n \in 1..Len(t.stateMap) |-> <<>>]
               /\ defaultState' = t.defaultState
               /\ systemMap' = t.systemMap
    /\ UNCHANGED <<activeState, pendingState, tickRequested, tickQueue, caller, counter,
                   log, lastCommit, fca, ctorArgs, call, eventListeners>>

\* StateTree.createSystem(name, type), called on the constructed tree.
CreateSystem(name, type) ==
    /\ pc = "constructed"
    /\ LET t == createSystem(ctorArgs.systemFactory,
                    [systemMap |-> systemMap, error |-> ""], name, type, <<NULL, name>>)
       IN /\ systemMap' = t.systemMap
          /\ lastError' = t.error
    /\ UNCHANGED <<stateMap, childNames, mainName, parent, children, activeState,
                   pendingState, defaultState, tickRequested, tickQueue, pc, caller,
                   counter, log, lastCommit, fca, ctorArgs, call, eventListeners>>

\* The names and types createSystem is called with: the names two units of the
\* description may have, one more name of a registered type, and the name of an
\* unregistered type.
CreateNames ==
    {systemName(1, 1), systemName(2, 1), systemName(DescNodes, MaxUnits),
     UnknownType(DescNodes)}
CreateTypes == {NULL, systemName(DescNodes, MaxUnits), UnknownType(DescNodes)}

NextBuild ==
    \/ Construct
    \/ \E initArgs \in BOOLEAN, req \in 0..DescNodes : OnInitialize(initArgs, req)

SpecBuild == InitBuild /\ [][NextBuild]_vars

\* ---------------------------------------------- creation of units (SpecSystems)
\* The arguments of a constructor call with a factory and a description of units.
InitSystems ==
    /\ ctorArgs \in [systemFactory : {Factory(DescNodes)}, desc : SystemDescs]
    /\ NoTree

NextSystems ==
    \/ Construct
    \/ \E name \in CreateNames, type \in CreateTypes : CreateSystem(name, type)

SpecSystems == InitSystems /\ [][NextSystems]_vars

\* ------------------------------------------- calls of the host program (SpecHost)
\* The values a description declares for a reference parameter.
DeclaredValues ==
    {Undefined, Null, Number(0), Number(1), String(NULL)}
    \cup {String(x) : x \in 1..UnknownType(HostNodes)}

\* The lists of leaves a host handler passes to changeState, one call per entry.
RECURSIVE LeafLists(_, _)
LeafLists(leaves, n) ==
    IF n = 0 THEN {<<>>}
    ELSE LeafLists(leaves, n - 1)
         \cup {Append(s, x) : s \in {r \in LeafLists(leaves, n - 1) : Len(r) = n - 1},
                              x \in leaves}

NoResult == NoFca.res

\* The calls the host program may make on a tree with the given leaves.
HostCalls(leaves) ==
    [op : {"changeState"}, names : LeafLists(leaves, MaxCalls) \ {<<>>}, done : {FALSE},
     thenDestroy : BOOLEAN, destroyed : {FALSE}]
    \cup [op : {"requestState"}, hasTree : BOOLEAN, name : 0..(HostNodes + 1),
          done : {FALSE}]
    \cup [op : {"applyParameters"}, type : ParameterTypes, state : 1..HostNodes,
          declared : DeclaredValues, done : {FALSE}, applied : {FALSE}, res : {NoResult}]
    \cup [op : {"onDestroy"}, initialized : BOOLEAN, done : {FALSE}]

\* A tree of HostNodes states whose main state is a leaf, after construction or, for
\* every call but an early onDestroy, after an onInitialize whose units requested no
\* state; and the call the host program is about to make.
InitHost ==
    \E par \in OrderedForests(HostNodes) :
        LET map == [i \in 1..HostNodes |-> i]
            unresolved == [parent |-> [n \in 1..HostNodes |-> NULL],
                           children |-> [n \in 1..HostNodes |-> <<>>]]
            t == resolveAll(map, DescOf(par), unresolved.parent, unresolved.children)
        IN \E main \in Leaves(t.children) :
            /\ call \in HostCalls(Leaves(t.children))
            /\ LET initialized == call.op = "onDestroy" => call.initialized
               IN /\ parent = IF initialized THEN t.parent ELSE unresolved.parent
                  /\ children = IF initialized THEN t.children ELSE unresolved.children
                  /\ activeState = IF initialized THEN main ELSE NULL
                  /\ pc = IF initialized THEN "idle" ELSE "constructed"
            /\ stateMap = map
            /\ childNames = DescOf(par)
            /\ mainName = main
            /\ defaultState = constructorDefault(map, main)
            /\ pendingState = NULL
            /\ tickRequested = FALSE
            /\ tickQueue = 0
            /\ caller = "none"
            /\ counter = 0
            /\ log = <<>>
            /\ lastError = ""
            /\ lastCommit = NoCommit
            /\ fca = NoFca
            /\ ctorArgs = [systemFactory |-> Factory(HostNodes), desc |-> TreeDesc(par, main)]
            /\ systemMap = constructor(Factory(HostNodes), TreeDesc(par, main)).systemMap
            /\ eventListeners = NoListeners

\* A handler of the host program that calls changeState once for each name of
\* call.names.
HostChangeStates ==
    /\ pc = "idle"
    /\ call.op = "changeState"
    /\ ~call.done
    /\ LET t == changeStates(stateMap, children,
                    [pendingState |-> pendingState, tickRequested |-> tickRequested,
                     tickQueue |-> tickQueue, error |-> ""], call.names, 1)
       IN /\ pendingState' = t.pendingState
          /\ tickRequested' = t.tickRequested
          /\ tickQueue' = t.tickQueue
          /\ lastError' = t.error
    /\ call' = [call EXCEPT !.done = TRUE]
    /\ log' = <<>>
    /\ lastCommit' = NoCommit
    /\ UNCHANGED <<stateMap, childNames, mainName, parent, children, defaultState,
                   ctorArgs, systemMap, eventListeners, activeState, pc, caller,
                   counter, fca>>

\* updateArgs.requestState(call.name), called by the host on an update context.
RequestState ==
    /\ pc = "idle"
    /\ call.op = "requestState"
    /\ ~call.done
    /\ LET t == requestState(call.hasTree, stateMap, children,
                    [pendingState |-> pendingState, tickRequested |-> tickRequested,
                     tickQueue |-> tickQueue, error |-> ""], call.name)
       IN /\ pendingState' = t.pendingState
          /\ tickRequested' = t.tickRequested
          /\ tickQueue' = t.tickQueue
          /\ lastError' = t.error
    /\ call' = [call EXCEPT !.done = TRUE]
    /\ log' = <<>>
    /\ lastCommit' = NoCommit
    /\ UNCHANGED <<stateMap, childNames, mainName, parent, children, defaultState,
                   ctorArgs, systemMap, eventListeners, activeState, pc, caller,
                   counter, fca>>

\* GameState._applyParameters for one reference parameter of a unit of the state
\* call.state, with initArgs.state set to that state as GameState.onInitialize does.
ApplyParameters ==
    /\ pc = "idle"
    /\ call.op = "applyParameters"
    /\ ~call.done
    /\ LET res == _applyParameters(parent, [state |-> call.state], call.type, call.declared)
       IN /\ call' = [call EXCEPT !.done = TRUE, !.res = res]
          /\ lastError' = res.error
    /\ log' = <<>>
    /\ lastCommit' = NoCommit
    /\ UNCHANGED <<stateMap, childNames, mainName, parent, children, defaultState,
                   ctorArgs, systemMap, eventListeners, activeState, pendingState,
                   tickRequested, tickQueue, pc, caller, counter, fca>>

\* apply() of the StateRef handle a parameter got, called once by its unit.
ApplyStateRef ==
    /\ pc = "idle"
    /\ call.op = "applyParameters"
    /\ call.done
    /\ ~call.applied
    /\ call.res.kind = "return"
    /\ call.res.value.t = "stateRef"
    /\ LET t == StateRef_apply(stateMap, children,
                    [pendingState |-> pendingState, tickRequested |-> tickRequested,
                     tickQueue |-> tickQueue, error |-> ""], call.res.value)
       IN /\ pendingState' = t.pendingState
          /\ tickRequested' = t.tickRequested
          /\ tickQueue' = t.tickQueue
          /\ lastError' = t.error
    /\ call' = [call EXCEPT !.applied = TRUE]
    /\ log' = <<>>
    /\ lastCommit' = NoCommit
    /\ UNCHANGED <<stateMap, childNames, mainName, parent, children, defaultState,
                   ctorArgs, systemMap, eventListeners, activeState, pc, caller,
                   counter, fca>>

\* The host program is about to call onDestroy: as its only call, or at some time
\* after its handler's changeState calls.
DestroyDue ==
    \/ call.op = "onDestroy" /\ ~call.done
    \/ call.op = "changeState" /\ call.done /\ call.thenDestroy /\ ~call.destroyed

\* StateTree.onDestroy()
OnDestroy ==
    /\ pc \in {"constructed", "idle"}
    /\ DestroyDue
    /\ LET t == onDestroy(stateMap, parent, children, activeState)
       IN /\ log' = t.events
          /\ activeState' = t.activeState
    /\ call' = IF call.op = "onDestroy" THEN [call EXCEPT !.done = TRUE]
               ELSE [call EXCEPT !.destroyed = TRUE]
    /\ lastError' = ""
    /\ lastCommit' = NoCommit
    /\ UNCHANGED <<stateMap, childNames, mainName, parent, children, defaultState,
                   ctorArgs, systemMap, eventListeners, pendingState, tickRequested,
                   tickQueue, pc, caller, counter, fca>>

NextHost ==
    \/ HostChangeStates
    \/ RequestState
    \/ ApplyParameters
    \/ ApplyStateRef
    \/ OnDestroy
    \/ ApplyTick
    \/ \E req \in 0..HostNodes : CommitIterate(req)
    \/ CommitThrow
    \/ CommitReturn

SpecHost == InitHost /\ [][NextHost]_vars

\* --------------------------------------- listeners of an EventGameSystem (SpecEvents)
EventNames == {"TestEvent", "UnusedEvent"}
Handlers == {"testCallback", "objCallback"}
\* The objects a handler is registered with; "undefined" when the argument is omitted.
Objects == {"undefined", "testObject"}

\* The number of registrations of all events.
RECURSIVE Registered(_, _)
Registered(listeners, names) ==
    IF names = {} THEN 0
    ELSE LET name == CHOOSE x \in names : TRUE
         IN Len(listeners[name]) + Registered(listeners, names \ {name})

\* new EventGameSystem(): no tree is involved.
InitEvents ==
    /\ ctorArgs = [systemFactory |-> NoFactory, desc |-> NoDesc]
    /\ NoTree

\* system.addListener(name, handler, obj), while fewer than MaxListeners
\* registrations exist.
AddListener(name, handler, obj) ==
    /\ Registered(eventListeners, DOMAIN eventListeners) < MaxListeners
    /\ eventListeners' = addListener(eventListeners, name, handler, obj)
    /\ call' = [op |-> "addListener", name |-> name, f |-> handler, o |-> obj]
    /\ UNCHANGED <<stateMap, childNames, mainName, parent, children, activeState,
                   pendingState, defaultState, tickRequested, tickQueue, pc, caller,
                   counter, log, lastError, lastCommit, fca, ctorArgs, systemMap>>

\* system.removeListener(name, handler, obj)
RemoveListener(name, handler, obj) ==
    /\ eventListeners' = removeListener(eventListeners, name, handler, obj)
    /\ call' = [op |-> "removeListener", name |-> name, f |-> handler, o |-> obj]
    /\ UNCHANGED <<stateMap, childNames, mainName, parent, children, activeState,
                   pendingState, defaultState, tickRequested, tickQueue, pc, caller,
                   counter, log, lastError, lastCommit, fca, ctorArgs, systemMap>>

\* system.fire(name, data), with callbacks that behave as cb says; a callback that
\* unregisters belongs to a registration of the event and names one.
Fire(name, cb) ==
    /\ cb.unregisters =>
          /\ mapHas(eventListeners, name)
          /\ \E i, j \in 1..Len(eventListeners[name]) :
                eventListeners[name][i] = cb.by /\ eventListeners[name][j] = cb.whom
    /\ LET r == fire(eventListeners, name, cb)
       IN /\ eventListeners' = r.listeners
          /\ call' = [op |-> "fire", name |-> name, notified |-> r.notified]
    /\ UNCHANGED <<stateMap, childNames, mainName, parent, children, activeState,
                   pendingState, defaultState, tickRequested, tickQueue, pc, caller,
                   counter, log, lastError, lastCommit, fca, ctorArgs, systemMap>>

NextEvents ==
    \/ \E name \in EventNames, handler \in Handlers, obj \in Objects :
          \/ AddListener(name, handler, obj)
          \/ RemoveListener(name, handler, obj)
    \/ \E name \in EventNames, cb \in Callbacks(Handlers, Objects) : Fire(name, cb)

SpecEvents == InitEvents /\ [][NextEvents]_vars

\* =================================================================== claims
\* Reference notions, defined on the parent links alone.
RECURSIVE AncestorsOf(_, _)
AncestorsOf(par, n) ==
    IF n = NULL \/ par[n] = NULL THEN {} ELSE {par[n]} \cup AncestorsOf(par, par[n])

RECURSIVE Depth(_, _)
Depth(par, n) == IF par[n] = NULL THEN 0 ELSE 1 + Depth(par, par[n])

HasNoChild(n) == \A c \in DOMAIN parent : parent[c] # n

\* The states an exit or enter cascade from n bounded by root has to cover.
BranchBelow(par, n, root) ==
    ({n} \cup AncestorsOf(par, n)) \ ({root} \cup AncestorsOf(par, root))

OfKind(kind) == SelectSeq(log, LAMBDA e : e[1] = kind)
IndicesOf(kind) == {i \in 1..Len(log) : log[i][1] = kind}

\* The state is the one right after an iteration of the commit loop that ...
Committed == lastCommit.taken # NULL
\* ... switched to another state,
Switched == Committed /\ lastCommit.taken # lastCommit.from
\* ... and left a previous active state for it.
SwitchedFromTo == Switched /\ lastCommit.from # NULL
LeafToLeaf == SwitchedFromTo /\ HasNoChild(lastCommit.from) /\ HasNoChild(lastCommit.taken)

\* C1: the active state is always none or a state without children.
C1_LeafInvariant ==
    activeState = NULL \/ HasNoChild(activeState)

\* C2: in a committed transition between two different leaves, no callback (onActivate
\* and onDeactivate in particular) reaches a unit of a state that is an ancestor of both,
\* that is of the branch root or of a state above it.
C2_AncestorPreservation ==
    LeafToLeaf =>
        \A i \in 1..Len(log) :
            log[i][2] \notin (AncestorsOf(parent, lastCommit.from)
                              \cap AncestorsOf(parent, lastCommit.taken))

C2_Witness ==
    /\ LeafToLeaf
    /\ lastCommit.root # NULL
    /\ parent[lastCommit.root] # NULL
    /\ NumUnits(lastCommit.root) > 0
    /\ NumUnits(parent[lastCommit.root]) > 0
    /\ IndicesOf("onActivate") # {}

\* The deactivations the exit cascade of a state owes: the state's units, last
\* attached first, then the same for each ancestor below the branch root.
RECURSIVE ExpectedDeactivations(_, _, _)
ExpectedDeactivations(par, n, root) ==
    [j \in 1..NumUnits(n) |-> Ev("onDeactivate", n, NumUnits(n) + 1 - j)]
    \o (IF par[n] # NULL /\ par[n] # root
        THEN ExpectedDeactivations(par, par[n], root) ELSE <<>>)

\* C3: the exit cascade of a commit deactivates the units of the left state in reverse
\* attachment order, then those of its parent, and so on, stopping before the branch root.
C3_ExitCascadeOrder ==
    SwitchedFromTo =>
        OfKind("onDeactivate")
            = ExpectedDeactivations(parent, lastCommit.from, lastCommit.root)

\* C4: the enter cascade of a commit activates every unit of the entered branch below
\* the branch root exactly once, an ancestor's units before a descendant's and a
\* state's units in attachment order, and a state's units only after the cascade has
\* entered its parent.
C4_EnterCascadeOrder ==
    Switched =>
        LET acts == OfKind("onActivate")
            branch == BranchBelow(parent, lastCommit.taken, lastCommit.root)
        IN /\ {acts[i] : i \in 1..Len(acts)}
                = {e \in {Ev("onActivate", n, k) : n \in branch, k \in 1..MaxUnits} :
                        e[3] <= NumUnits(e[2])}
           /\ Len(acts) = Cardinality({acts[i] : i \in 1..Len(acts)})
           /\ \A i, j \in 1..Len(acts) :
                i < j => \/ acts[i][2] \in AncestorsOf(parent, acts[j][2])
                         \/ acts[i][2] = acts[j][2] /\ acts[i][3] < acts[j][3]
           /\ \A i \in IndicesOf("onActivate"), j \in IndicesOf("onEnter") :
                log[j][2] \in branch => j < i

C4_Witness ==
    /\ SwitchedFromTo
    /\ lastCommit.root # NULL
    /\ parent[lastCommit.taken] # lastCommit.root
    /\ NumUnits(lastCommit.taken) > 0
    /\ NumUnits(parent[lastCommit.taken]) > 1

\* C5: in a commit that switches between two different leaves, every unit of the left
\* leaf and of its ancestors below the branch root is deactivated exactly once, and
\* before any unit is activated.
C5_DeactivatedOnceBeforeActivation ==
    LeafToLeaf =>
        \A n \in BranchBelow(parent, lastCommit.from, lastCommit.root) :
            \A k \in 1..NumUnits(n) :
                /\ Cardinality({i \in 1..Len(log) : log[i] = Ev("onDeactivate", n, k)}) = 1
                /\ \A i \in 1..Len(log), j \in IndicesOf("onActivate") :
                       log[i] = Ev("onDeactivate", n, k) => i < j

\* C10: taking a pending state that is the active state clears pendingState, leaves
\* activeState alone, invokes no callback and raises no error.
C10_SelfTransitionNoOp ==
    (Committed /\ lastCommit.taken = lastCommit.from) =>
        /\ activeState = lastCommit.from
        /\ pendingState = NULL
        /\ log = <<>>
        /\ lastError = ""
        /\ pc = "commit"

C10_Witness ==
    /\ Committed
    /\ lastCommit.taken = lastCommit.from
    /\ NumUnits(activeState) > 0

\* ------------------------------------------------ findCommonAncestor claims
Called == fca.res.kind # "none"
CalledOnStates == Called /\ fca.a # NULL /\ fca.b # NULL

\* C6 as stated: findCommonAncestor(A, B) and findCommonAncestor(B, A) agree for every
\* pair of states, leaves or not.
C6_SymmetryAllPairs ==
    CalledOnStates => fca.res = findCommonAncestor(parent, fca.b, fca.a)

\* C6 amended: the two results agree for every pair of states in which neither is the
\* parent of the other, and when the parent is a root; for a parent A that is not a
\* root and its child B, findCommonAncestor(A, B) is A's parent and
\* findCommonAncestor(B, A) is A.
C6_SymmetryUnlessParentAndChild ==
    CalledOnStates =>
        LET swapped == findCommonAncestor(parent, fca.b, fca.a)
        IN IF parent[fca.b] = fca.a /\ parent[fca.a] # NULL
           THEN fca.res = Return(parent[fca.a]) /\ swapped = Return(fca.a)
           ELSE IF parent[fca.a] = fca.b /\ parent[fca.b] # NULL
           THEN fca.res = Return(fca.b) /\ swapped = Return(parent[fca.b])
           ELSE fca.res = swapped

C6_Witness ==
    /\ CalledOnStates
    /\ fca.a \in AncestorsOf(parent, fca.b)
    /\ parent[fca.b] # fca.a
    /\ parent[fca.a] # NULL
    /\ fca.res.value # NULL

\* The deepest state on the parent chains of both a and b, NULL if there is none.
DeepestCommonAncestor(par, a, b) ==
    LET common == AncestorsOf(par, a) \cap AncestorsOf(par, b)
    IN IF common = {} THEN NULL
       ELSE CHOOSE c \in common : \A d \in common : Depth(par, d) <= Depth(par, c)

\* C7: for two leaves, findCommonAncestor returns the leaf itself when both are the
\* same, otherwise the deepest state on both parent chains, and none, without an
\* error, when the chains share no state.
C7_CommonAncestorOfLeaves ==
    (CalledOnStates /\ HasNoChild(fca.a) /\ HasNoChild(fca.b)) =>
        fca.res = Return(IF fca.a = fca.b THEN fca.a
                         ELSE DeepestCommonAncestor(parent, fca.a, fca.b))

C7_Witness ==
    /\ CalledOnStates
    /\ HasNoChild(fca.a)
    /\ HasNoChild(fca.b)
    /\ Depth(parent, fca.a) >= Depth(parent, fca.b) + 2
    /\ fca.res.kind = "return"
    /\ fca.res.value # NULL
    /\ parent[fca.res.value] # NULL

\* C8: with a first argument that is none the call throws the error naming stateA,
\* with only the second none the error naming stateB, and returns no state.
C8_NullArguments ==
    Called =>
        /\ fca.a = NULL =>
              /\ fca.res.kind = "throw"
              /\ fca.res.error = "findCommonAncestor - stateA was invalid."
              /\ fca.res.value = NULL
        /\ (fca.a # NULL /\ fca.b = NULL) =>
              /\ fca.res.kind = "throw"
              /\ fca.res.error = "findCommonAncestor - stateB was invalid."
              /\ fca.res.value = NULL

C8_Witness ==
    /\ Called
    /\ fca.a = NULL
    /\ fca.b = NULL
    /\ fca.res.kind = "throw"

\* ------------------------------------------------------------ cascade bound
\* A step of a running commitStateChange call takes one more pending state, ...
C9_Took ==
    /\ pendingState # NULL
    /\ pc' = "commit"
    /\ caller' = caller
    /\ counter' = counter + 1
    /\ counter' <= 10
\* ... or returns because nothing is pending, ...
C9_Returned ==
    /\ pendingState = NULL
    /\ caller' # caller
    /\ lastError' = lastError
\* ... or fails because an eleventh state is pending.
C9_Threw ==
    /\ pendingState # NULL
    /\ counter = 10
    /\ pc' = "idle"
    /\ lastError' = "StateTree.commitStateChange - Too many state changes occurred in the frame."
    /\ activeState' = activeState

\* C9: a commitStateChange call takes at most 10 pending states, each step of it
\* takes one more state, returns or throws the 'too many state changes' error, and it
\* can always take its next step: it ends after at most 11 steps.
C9_CascadeBound ==
    /\ [](pc = "commit" => (counter <= 10 /\ ENABLED Next))
    /\ [][pc = "commit" => (C9_Took \/ C9_Returned \/ C9_Threw)]_vars

C9_Witness ==
    /\ pc = "idle"
    /\ counter = 11
    /\ pendingState # NULL
    /\ lastError = ErrTooManyChanges

\* ------------------------------------------------------------ initialization
\* onInitialize has finished its pass over the root states and is about to call
\* commitStateChange.
InitPassDone == pc = "commit" /\ caller = "init" /\ counter = 0

\* Every unit of every state has received onInitialize exactly once in the last step.
EveryUnitInitialized ==
    \A n \in 1..Len(stateMap) : \A k \in 1..NumUnits(n) :
        Cardinality({i \in 1..Len(log) : log[i] = Ev("onInitialize", n, k)}) = 1

\* No state has been entered and no unit activated so far.
NothingActivated ==
    /\ activeState = NULL
    /\ IndicesOf("onEnter") = {}
    /\ IndicesOf("onActivate") = {}

\* The first enter cascade, from no active state, runs in the step after the
\* initialization pass and in no other step, and takes the state that is pending then.
C11_FirstCascadeAfterInit ==
    /\ [][InitPassDone =>
            /\ lastCommit' = [taken |-> pendingState, from |-> NULL, root |-> NULL]
            /\ activeState' = pendingState
            /\ log' = onEnter(parent, pendingState, NULL)
                      \o onPostEnter(parent, pendingState, NULL)]_vars
    /\ [][(lastCommit'.taken # NULL /\ lastCommit'.from = NULL) => InitPassDone]_vars
    /\ [][activeState # NULL => activeState' # NULL]_vars

QuietInitReturns == caller = "init" /\ pc = "commit" /\ pc' = "idle" /\ ~tickRequested

\* C12: when onInitialize returns and no unit requested a transition during the
\* initialization pass or its activation, the active state is the default state, nothing
\* is pending, the units of the default state and of each of its ancestors were each
\* activated once, an ancestor's before a descendant's (root first, the default state
\* last), and no state was exited and no unit deactivated.
C12_AfterQuietInitialization ==
    [][QuietInitReturns =>
         LET acts == OfKind("onActivate")
             branch == {defaultState} \cup AncestorsOf(parent, defaultState)
         IN /\ activeState' = defaultState
            /\ pendingState' = NULL
            /\ lastError' = ""
            /\ {acts[i] : i \in 1..Len(acts)}
                 = {e \in {Ev("onActivate", n, k) : n \in branch, k \in 1..MaxUnits} :
                         e[3] <= NumUnits(e[2])}
            /\ \A i, j \in 1..Len(acts) :
                 i < j => \/ Depth(parent, acts[i][2]) < Depth(parent, acts[j][2])
                          \/ acts[i][2] = acts[j][2] /\ acts[i][3] < acts[j][3]
            /\ IndicesOf("onDeactivate") = {}
            /\ IndicesOf("onExit") = {}]_vars

C12_Witness ==
    /\ caller = "init"
    /\ pc = "commit"
    /\ pendingState = NULL
    /\ ~tickRequested
    /\ activeState = defaultState
    /\ Depth(parent, defaultState) >= 2
    /\ NumUnits(defaultState) > 0
    /\ NumUnits(parent[defaultState]) > 0
    /\ Len(OfKind("onActivate")) >= 3

\* C13: after the initialization pass of a tree that construction and link resolution
\* accepted, every state has been visited exactly once, a parent before each of its
\* children, and every unit of every state has received onInitialize exactly once.
C13_InitializationCoverage ==
    InitPassDone =>
        /\ \A n \in 1..Len(stateMap) :
              Cardinality({i \in 1..Len(log) : log[i] = Ev("onInitializeState", n, 0)}) = 1
        /\ \A i, j \in IndicesOf("onInitializeState") :
              parent[log[j][2]] = log[i][2] => i < j
        /\ EveryUnitInitialized

\* ------------------------------------------------- construction, link resolution
ConstructionFails(message) ==
    /\ pc' = "failed"
    /\ lastError' = message
    /\ LET t == constructor(ctorArgs.systemFactory, ctorArgs.desc)
       IN t.stateMap = <<>> /\ t.systemMap = <<>> /\ t.defaultState = NULL
    /\ UNCHANGED <<stateMap, childNames, parent, children, systemMap, activeState,
                   pendingState, defaultState, tickRequested, tickQueue>>

\* C14: a constructor call without a factory throws the factory error, one with a
\* factory but without a description throws the description error, in both cases
\* before a state or a unit is created; and an onInitialize call without InitArgs can be
\* made on every constructed tree and throws the InitArgs error, leaving activeState,
\* pendingState, the parent links and the children maps as they were.
C14_MissingArgumentRejected ==
    /\ [][(pc = "new" /\ ~ctorArgs.systemFactory.given) =>
             ConstructionFails(ErrNoFactory)]_vars
    /\ [][(pc = "new" /\ ctorArgs.systemFactory.given /\ ~ctorArgs.desc.given) =>
             ConstructionFails(ErrNoDescription)]_vars
    /\ [](pc = "constructed" => ENABLED OnInitialize(FALSE, NULL))
    /\ [][OnInitialize(FALSE, NULL) =>
             /\ lastError' = ErrNoInitArgs
             /\ UNCHANGED <<activeState, pendingState, parent, children, defaultState,
                            stateMap, systemMap, tickRequested, tickQueue, pc, log>>]_vars
    /\ [][lastError' = ErrNoInitArgs => OnInitialize(FALSE, NULL)]_vars

C14_Witness ==
    /\ pc = "constructed"
    /\ lastError = ErrNoInitArgs
    /\ \E n \in 1..Len(stateMap) : parent[n] # NULL

\* The places <<n, i>> of the child lists of the description, in the order in which
\* link resolution reads them.
ClaimPlaces ==
    {x \in (1..Len(stateMap)) \X (1..(MaxClaims + 1)) : x[2] <= Len(childNames[x[1]])}
ReadBefore(x, y) == x[1] < y[1] \/ (x[1] = y[1] /\ x[2] < y[2])
NameAt(x) == childNames[x[1]][x[2]]

\* The places that name a state some earlier place has named already, and the places
\* that name no state.
RepeatedClaims ==
    {y \in ClaimPlaces : \E x \in ClaimPlaces : ReadBefore(x, y) /\ NameAt(x) = NameAt(y)
                                                /\ getState(stateMap, NameAt(y)) # NULL}
MissingClaims == {x \in ClaimPlaces : getState(stateMap, NameAt(x)) = NULL}
ClaimedTwice == RepeatedClaims # {}

\* A call of onInitialize with InitArgs on a constructed tree whose links are unresolved.
ResolvesLinks ==
    /\ \E req \in 0..DescNodes : OnInitialize(TRUE, req)
    /\ \A n \in 1..Len(stateMap) : parent[n] = NULL

\* After a resolution that succeeded no state is named twice, every state with a
\* parent is once in the children of that parent and in no other's, and a state
\* without parent is in none.
SingleParentAfterResolution ==
    InitPassDone =>
        /\ ~ClaimedTwice
        /\ \A c \in 1..Len(stateMap) :
              LET holders == {x \in (1..Len(stateMap)) \X (1..(MaxClaims + 1)) :
                                 x[2] <= Len(children[x[1]]) /\ children[x[1]][x[2]] = c}
              IN IF parent[c] = NULL THEN holders = {}
                 ELSE /\ Cardinality(holders) = 1
                      /\ \A x \in holders : x[1] = parent[c]

\* C15 as stated: link resolution of a tree in which some state is named as a child
\* more than once (by two states or twice by one) fails with the multiple-parents
\* error, and after a successful resolution every state has at most one parent and is
\* in the children of exactly that parent.
C15_MultipleParentsError ==
    /\ [][(ResolvesLinks /\ ClaimedTwice) =>
             (pc' = "constructed" /\ lastError' = ErrMultipleParents)]_vars
    /\ []SingleParentAfterResolution

\* C15 amended: such a resolution fails, no state is entered and no unit initialized;
\* the error is the multiple-parents error unless a child list names a missing state
\* at a place read before the first repeated claim, and then it is the missing-state
\* error. After a successful resolution every state has at most one parent and is in
\* the children of exactly that parent.
C15_SingleParent ==
    /\ [][(ResolvesLinks /\ ClaimedTwice) =>
             /\ pc' = "constructed"
             /\ lastError' =
                  (IF \E m \in MissingClaims : \A r \in RepeatedClaims : ReadBefore(m, r)
                   THEN ErrMissingChild ELSE ErrMultipleParents)
             /\ activeState' = NULL /\ pendingState' = NULL /\ log' = <<>>]_vars
    /\ []SingleParentAfterResolution

C15_Witness ==
    /\ pc = "constructed"
    /\ lastError = ErrMultipleParents
    /\ \E n \in 1..Len(stateMap) :
          /\ Len(childNames[n]) = 2
          /\ childNames[n][1] = childNames[n][2]
          /\ parent[childNames[n][1]] = n

\* ---------------------------------------------------------- unit-name uniqueness
\* The units <<n, k>> of the description handed to the constructor, and their names.
DescUnits ==
    {u \in (1..Len(ctorArgs.desc.states)) \X (1..MaxUnits) :
        u[2] <= Len(ctorArgs.desc.states[u[1]].systems)}
DescName(u) == ctorArgs.desc.states[u[1]].systems[u[2]]

\* The units whose name an earlier unit of the description has, in the same state or
\* in another, and the units of an unregistered type.
RepeatedUnits ==
    {v \in DescUnits : \E u \in DescUnits : ReadBefore(u, v) /\ DescName(u) = DescName(v)}
UntypedUnits == {u \in DescUnits : DescName(u) \notin ctorArgs.systemFactory.types}

\* C16: a createSystem call with a name that is in the unit map throws the 'already
\* exists' error, whatever the type, and leaves the map as it was; construction from a
\* description in which a unit has the name of an earlier unit, of the same state or of
\* another, fails, with that error when the creation of the repeated name is reached;
\* no entry of the map is ever replaced or removed, the objects of two names differ,
\* and after construction every unit of the description is the object of its name.
C16_UnitNameUniqueness ==
    /\ [][\A name \in CreateNames, type \in CreateTypes :
            (CreateSystem(name, type) /\ name \in DOMAIN systemMap) =>
                (lastError' = ErrSystemExists /\ systemMap' = systemMap)]_vars
    /\ [][(pc = "new" /\ RepeatedUnits # {}) =>
            /\ pc' = "failed"
            /\ systemMap' = systemMap
            /\ lastError' =
                 (IF \E u \in UntypedUnits \ RepeatedUnits :
                        \A v \in RepeatedUnits : ReadBefore(u, v)
                  THEN ErrNoSystemType ELSE ErrSystemExists)]_vars
    /\ [][\A name \in DOMAIN systemMap :
            name \in DOMAIN systemMap' /\ systemMap'[name] = systemMap[name]]_vars
    /\ [](pc = "constructed" =>
            /\ \A a, b \in DOMAIN systemMap : a # b => systemMap[a] # systemMap[b]
            /\ \A u \in DescUnits : DescName(u) \in DOMAIN systemMap
                                     /\ systemMap[DescName(u)] = u)

C16_Witness ==
    /\ pc = "constructed"
    /\ lastError = ErrSystemExists
    /\ \E name \in DOMAIN systemMap : systemMap[name][1] = NULL
    /\ Cardinality(DOMAIN systemMap) > 2

\* --------------------------------------------------------------- default state
\* C17: a tree constructed from a description with states has as defaultState the
\* state named by 'main' when there is one, and otherwise the first state of the
\* description that declares no children; and construction with a 'main' that is the
\* name of no state fails with the main-state error.
C17_DefaultStateResolution ==
    /\ []((pc = "constructed" /\ Len(stateMap) > 0) =>
            IF mainName # NULL THEN defaultState = mainName
            ELSE /\ defaultState # NULL
                 /\ Len(childNames[defaultState]) = 0
                 /\ \A n \in 1..Len(stateMap) :
                       n < defaultState => Len(childNames[n]) > 0)
    /\ [][(pc = "new" /\ ctorArgs.systemFactory.given /\ ctorArgs.desc.hasStates
             /\ ctorArgs.desc.main # NULL
             /\ \A i \in 1..Len(ctorArgs.desc.states) :
                    ctorArgs.desc.states[i].name # ctorArgs.desc.main) =>
            (pc' = "failed" /\ lastError' = ErrNoMainState)]_vars

\* ------------------------------------------------------ the deferred transition
\* The constructor returns a tree with states.
ConstructionReturns == pc = "new" /\ pc' = "constructed" /\ Len(stateMap') > 0

\* C18 as stated: when construction of a tree with states returns, pendingState is the
\* default state, activeState is none and no unit has been activated.
C18_PendingAfterConstruction ==
    [][ConstructionReturns =>
          /\ pendingState' = defaultState'
          /\ activeState' = NULL
          /\ log' = <<>>]_vars

\* C18 amended: when construction of a tree with states returns, the default state is
\* resolved, pendingState and activeState are none and no unit has been initialized or
\* activated, and this stays so until onInitialize is called with InitArgs on links that
\* resolve; only that call makes the default state pending, after which it commits it.
C18_ConstructionDefersTransition ==
    /\ [][ConstructionReturns =>
            /\ defaultState' # NULL
            /\ pendingState' = NULL
            /\ activeState' = NULL
            /\ log' = <<>>]_vars
    /\ [](pc = "constructed" =>
            (pendingState = NULL /\ activeState = NULL /\ log = <<>> /\ ~tickRequested))
    /\ []((InitPassDone /\ ~tickRequested) =>
            (pendingState = defaultState /\ NothingActivated))
    /\ [][pendingState' # pendingState =>
            \E req \in 0..DescNodes : OnInitialize(TRUE, req)]_vars

C18_Witness ==
    /\ pc = "constructed"
    /\ lastError = ""
    /\ pendingState = NULL
    /\ defaultState # NULL
    /\ Len(childNames[defaultState]) = 0
    /\ NumUnits(defaultState) > 1
    /\ mainName = defaultState

\* ------------------------------------------------------ changeState validation
\* The error a changeState call with this name has to fail with, "" for a leaf's name.
ExpectedChangeStateError(stateName) ==
    IF stateName = NULL THEN "StateTree.changeState - No state was specified for transfer."
    ELSE IF stateName \notin {stateMap[i] : i \in 1..Len(stateMap)}
    THEN "StateTree.changeState - Requested state could not be found."
    ELSE IF ~HasNoChild(stateName)
    THEN "StateTree.changeState - Requested state was not a leaf node."
    ELSE ""

UpdatesOwed(kind, n) ==
    {e \in {Ev(kind, s, k) : s \in {n} \cup AncestorsOf(parent, n), k \in 1..MaxUnits} :
        e[3] <= NumUnits(e[2]) /\ hasOnUpdate(e[2], e[3])}

\* onUpdate passes from its first commitStateChange call to its update passes.
UpdateStarts == caller = "updatePre" /\ caller' = "updatePost"

\* C20: a state that is pending when onUpdate is called is taken by the first step of
\* that call; no update callback runs while the call's first commitStateChange is
\* running; the update passes start only when nothing is pending, and the units they
\* update are exactly the units with an update callback of the state then active and
\* of its ancestors, each once, and no unit of a state outside that branch.
C20_CommitBeforeUpdate ==
    /\ [][(caller = "updatePre" /\ counter = 0 /\ pendingState # NULL) =>
            /\ caller' = "updatePre"
            /\ lastCommit'.taken = pendingState
            /\ activeState' = pendingState]_vars
    /\ [](caller = "updatePre" =>
            (IndicesOf("onUpdateSystem") = {} /\ IndicesOf("onPostUpdateSystem") = {}))
    /\ [][UpdateStarts =>
            /\ pendingState = NULL
            /\ activeState' = activeState
            /\ LET ups == SelectSeq(log', LAMBDA e : e[1] = "onUpdateSystem")
               IN /\ {ups[i] : i \in 1..Len(ups)}
                       = (IF activeState = NULL THEN {}
                          ELSE UpdatesOwed("onUpdateSystem", activeState))
                  /\ Cardinality({ups[i] : i \in 1..Len(ups)}) = Len(ups)
            /\ \A i \in 1..Len(log') :
                  log'[i][2] \in {activeState} \cup AncestorsOf(parent, activeState)]_vars

C20_Witness ==
    /\ pc = "commit"
    /\ caller = "updatePre"
    /\ counter = 1
    /\ pendingState = NULL
    /\ SwitchedFromTo
    /\ lastCommit.root = NULL
    /\ NumUnits(lastCommit.from) > 0
    /\ NumUnits(lastCommit.taken) > 0
    /\ parent[lastCommit.taken] # NULL
    /\ NumUnits(parent[lastCommit.taken]) > 0

\* ------------------------------------------------- requests made during a frame
\* A step of an onUpdate call from its update passes on.
InFrameAfterUpdate == pc = "commit" /\ caller = "updatePost"

\* An onUpdate call returns without an error.
UpdateReturns ==
    /\ caller \in {"updatePre", "updatePost"}
    /\ caller' = "none"
    /\ lastError' = ""

\* C21: a state requested by a unit during the update passes of an onUpdate call, or
\* by a callback of a transition that follows them in the same call, is pending when
\* the call's second commitStateChange runs and is the state that commit takes next,
\* unless the limit of state changes is exceeded; from the update passes on the active
\* state changes only to the state then pending, the last one requested; and when
\* the call returns without an error nothing is pending.
C21_CommitAfterUpdate ==
    /\ [][(InFrameAfterUpdate /\ pendingState # NULL) =>
            \/ /\ activeState' = pendingState
               /\ lastCommit'.taken = pendingState
               /\ caller' = "updatePost"
            \/ /\ lastError' = ErrTooManyChanges
               /\ exceedsLimit(counter)]_vars
    /\ [][InFrameAfterUpdate =>
            (activeState' = activeState \/ activeState' = pendingState)]_vars
    /\ [][UpdateReturns =>
            /\ pendingState = NULL
            /\ pendingState' = NULL
            /\ activeState' = activeState]_vars

\* The second commitStateChange of an onUpdate call has taken the leaf a unit
\* requested during the update passes, and nothing is pending.
C21_Witness ==
    /\ InFrameAfterUpdate
    /\ counter = 1
    /\ pendingState = NULL
    /\ SwitchedFromTo
    /\ activeState = lastCommit.taken
    /\ lastError = ""

\* --------------------------------------------------------- order of the update pass
\* The positions of the unit callbacks of one kind in a log.
UnitCalls(events, kind) == {i \in 1..Len(events) : events[i][1] = kind /\ events[i][3] # 0}

\* The units of a state are called before the units of each of its ancestors.
LeafThenAncestor(events, kind) ==
    \A i, j \in UnitCalls(events, kind) :
        events[j][2] \in AncestorsOf(parent, events[i][2]) => i < j

\* C22: in the update passes of an onUpdate call, the update callbacks of the units
\* of the active leaf come before those of each ancestor's units, up to the root; the
\* post-update callbacks come in the same order, all of them after the last update
\* callback.
C22_UpdateOrderLeafFirst ==
    [][UpdateStarts =>
        /\ LeafThenAncestor(log', "onUpdateSystem")
        /\ LeafThenAncestor(log', "onPostUpdateSystem")
        /\ \A i \in UnitCalls(log', "onUpdateSystem"),
              j \in UnitCalls(log', "onPostUpdateSystem") : i < j]_vars

\* ------------------------------------------------------ coverage of the update pass
\* How many times a log holds a callback.
TimesCalled(events, e) == Cardinality({i \in 1..Len(events) : events[i] = e})

\* The update calls a unit is owed in a frame in which state 'active' is the active
\* state: one if the unit has the callback and its state is the active state or one
\* of its ancestors, none otherwise.
UpdateCallsDue(active, n, k) ==
    IF /\ active # NULL
       /\ n \in {active} \cup AncestorsOf(parent, active)
       /\ hasOnUpdate(n, k)
    THEN 1 ELSE 0

\* C23: in the update passes of an onUpdate call every unit of the tree receives its
\* update callback exactly once if it has one and is attached to the active state or
\* to one of its ancestors, and not at all otherwise; with no active state the passes
\* call nothing.
C23_UpdateCoverage ==
    [][UpdateStarts =>
        /\ \A n \in DOMAIN parent : \A k \in 1..NumUnits(n) :
              TimesCalled(log', Ev("onUpdateSystem", n, k)) = UpdateCallsDue(activeState, n, k)
        /\ activeState = NULL => log' = <<>>]_vars

\* The update passes have run on an active leaf with a parent: a unit with the
\* callback and a unit without it are attached to the branch, and a state outside the
\* branch has a unit with the callback.
C23_Witness ==
    /\ InFrameAfterUpdate
    /\ counter = 0
    /\ activeState # NULL
    /\ parent[activeState] # NULL
    /\ NumUnits(activeState) = MaxUnits
    /\ NumUnits(parent[activeState]) > 0
    /\ UnitCalls(log, "onUpdateSystem") # {}
    /\ \E n \in DOMAIN parent :
          /\ n \notin {activeState} \cup AncestorsOf(parent, activeState)
          /\ NumUnits(n) > 0

\* ------------------------------------------------------------ out-of-band requests
\* A call of changeState from outside the tree's callbacks returns without an error.
ChangeStateSucceeds == \E stateName \in 1..MaxNodes : ChangeState(stateName) /\ lastError' = ""

\* C25: after a successful changeState call made outside onUpdate the requested leaf
\* is pending and a call of _onApplyTick is queued to commit it, so the request does
\* not depend on a later onUpdate call; never more than one such call is queued, and
\* the queued call commits the pending leaf unless a commit inside onUpdate took it
\* first.
C25_RequestHasTick ==
    /\ [][ChangeStateSucceeds => (pendingState' # NULL /\ tickQueue' > 0)]_vars
    /\ [](tickQueue <= 1)
    /\ [][(ApplyTick /\ pendingState # NULL) =>
            (pc' = "commit" /\ caller' = "tick" /\ pendingState' = pendingState)]_vars

\* ------------------------------------------------------------ coalesced requests
\* The host handler has made its changeState calls.
RequestsMade == call.op = "changeState" /\ call.done

LastRequested == call.names[Len(call.names)]
\* The leaves requested by a call that a later call of the handler replaced.
RequestedEarlier == {call.names[i] : i \in 1..(Len(call.names) - 1)} \ {LastRequested}

\* The first iteration of the commit that follows the handler.
FirstCommitAfterRequests ==
    RequestsMade /\ pc = "commit" /\ counter = 0 /\ pendingState # NULL

\* C24: a handler that calls changeState with several leaves leaves only the last of
\* them pending, with one tick queued, and invokes no callback; the commit that
\* follows takes the last leaf, and a leaf requested earlier does not become the
\* active state and gets no callback through that commit, unless it is the state
\* the commit exits, in which case its units are not activated.
C24_OnlyLastRequestCommitted ==
    /\ [][HostChangeStates =>
            /\ pendingState' = LastRequested
            /\ activeState' = activeState
            /\ tickQueue' = 1
            /\ log' = <<>>]_vars
    /\ [][FirstCommitAfterRequests =>
            /\ activeState' = LastRequested
            /\ lastCommit'.taken = LastRequested
            /\ \A x \in RequestedEarlier :
                  /\ activeState' # x
                  /\ \A i \in 1..Len(log') :
                        log'[i][2] = x => (x = activeState /\ log'[i][1] # "onActivate")]_vars

\* The commit after a handler that requested two leaves, neither of them the active
\* one, has taken the second; the first has units.
C24_Witness ==
    /\ RequestsMade
    /\ Len(call.names) >= 2
    /\ RequestedEarlier # {}
    /\ \E x \in RequestedEarlier : NumUnits(x) > 0 /\ x # lastCommit.from
    /\ pc = "commit"
    /\ counter = 1
    /\ SwitchedFromTo
    /\ activeState = LastRequested

\* ------------------------------------------------------- UpdateArgs.requestState
\* C26: updateArgs.requestState(name) fails with the no-state-tree error and changes
\* nothing when updateArgs.stateTree is not set; when it refers to an initialized tree
\* and name is the name of a leaf, pendingState is that leaf after the call and no
\* error is thrown.
C26_RequestStateRequests ==
    [][RequestState =>
        IF ~call.hasTree
        THEN lastError' = ErrNoStateTree /\ pendingState' = pendingState
        ELSE call.name \in Leaves(children) =>
                (lastError' = "" /\ pendingState' = call.name)]_vars

\* ------------------------------------------------------------- unit references
\* A reference parameter of the given type has been given its value.
ParameterApplied(type) == call.op = "applyParameters" /\ call.type = type /\ call.done

\* The units a unit of state n may refer to: those of n and of its ancestors.
UnitsInScope(n) ==
    {<<s, k>> : s \in {n} \cup AncestorsOf(parent, n), k \in 1..MaxUnits}
    \cap {<<s, k>> \in (DOMAIN parent) \X (1..MaxUnits) : k <= NumUnits(s)}

\* The result of resolving the declared value d during the initialization of state
\* n: the unit of that name on n or on an ancestor of n, an error when there is none
\* or when d is not a string.
ResolvesInScope(n, d, res) ==
    IF d.t = "string" /\ \E u \in UnitsInScope(n) : systemName(u[1], u[2]) = d.v
    THEN /\ res.kind = "return"
         /\ res.value.t = "system"
         /\ res.value.v \in UnitsInScope(n)
         /\ systemName(res.value.v[1], res.value.v[2]) = d.v
    ELSE res.kind = "throw" /\ res.error \in {ErrNotString, ErrSystemNotFound}

\* C27: every value declared for a unit reference of a unit of state N resolves to
\* the unit of that name on N or on an ancestor of N, and fails with an error when no
\* such unit exists or when the value is not a string.
C27_UnitReferenceScoping ==
    [][(ApplyParameters /\ call.type = "ref:system" /\ call.declared # Undefined) =>
        ResolvesInScope(call.state, call.declared, call'.res)]_vars

\* C27, amended: a declared value that is truthy resolves as the claim says; a declared
\* value that is falsy (null, 0, the empty string) is treated as not declared: the
\* parameter gets its default value and no error is raised.
C27_TruthyReferenceScoping ==
    [][(ApplyParameters /\ call.type = "ref:system") =>
        IF truthy(call.declared)
        THEN ResolvesInScope(call.state, call.declared, call'.res)
        ELSE call'.res = Return(Null)]_vars

\* A reference declared on a state with units of its own has resolved to a unit of
\* an ancestor.
C27_Witness ==
    /\ ParameterApplied("ref:system")
    /\ call.res.kind = "return"
    /\ call.res.value.t = "system"
    /\ call.res.value.v[1] \in AncestorsOf(parent, call.state)
    /\ NumUnits(call.state) > 0

\* ------------------------------------------------------------- leaf references
\* C28: a value declared for a leaf reference and handed to extractValue fails with
\* an error at initialization time unless it is a string that names a leaf of the
\* tree; when it is one, the handle returned refers to that leaf, and apply() of a
\* handle makes the handle's leaf the pending state of the tree.
C28_LeafReferenceChecked ==
    /\ [][(ApplyParameters /\ call.type = "ref:state" /\ truthy(call.declared)) =>
            IF call.declared.t = "string" /\ call.declared.v \in Leaves(children)
            THEN call'.res = Return(StateRef(call.declared.v))
            ELSE call'.res.kind = "throw"]_vars
    /\ [][ApplyStateRef =>
            (lastError' = "" /\ pendingState' = call.res.value.v)]_vars

\* -------------------------------------------------------------------- teardown
\* The positions of a state's callbacks of one kind in a log.
CallsOn(events, kind, n) == {i \in 1..Len(events) : events[i][1] = kind /\ events[i][2] = n}

\* C29: StateTree.onDestroy, called on an initialized tree, invokes onDestroy exactly
\* once on every unit of the tree, on the active branch or not, and on the units of
\* every child of a state before the state's own units.
C29_TeardownCoverage ==
    [][(OnDestroy /\ pc = "idle") =>
        /\ \A n \in 1..Len(stateMap) : \A k \in 1..NumUnits(n) :
              TimesCalled(log', Ev("onDestroy", n, k)) = 1
        /\ \A n \in 1..Len(stateMap) : \A c \in 1..Len(stateMap) :
              childNames[n] # <<>> /\ (\E x \in 1..Len(childNames[n]) : childNames[n][x] = c) =>
                 \A i \in {x \in CallsOn(log', "onDestroy", c) : log'[x][3] # 0},
                    j \in {x \in CallsOn(log', "onDestroy", n) : log'[x][3] # 0} : i < j]_vars

\* ------------------------------------------------------------ listener removal
\* How many registrations of a list match a handler and an object.
Matching(list, handler, obj) ==
    Cardinality({i \in 1..Len(list) : list[i] = Listener(handler, obj)})

\* The list an event has, empty when the event has none.
ListenersOf(listeners, name) == IF mapHas(listeners, name) THEN listeners[name] ELSE <<>>

\* C30: removeListener(name, handler, obj) takes exactly one registration that matches
\* both handler and obj out of the list of the named event and leaves every other
\* registration, of this and of every other event, in place and in order; when nothing
\* matches it changes nothing.  addListener adds one registration to the named event
\* alone, so k matching registrations followed by j <= k removals leave k - j.
C30_RemoveExactlyOne ==
    [][\A name \in EventNames, handler \in Handlers, obj \in Objects :
        LET old == ListenersOf(eventListeners, name)
            new == ListenersOf(eventListeners', name)
        IN /\ RemoveListener(name, handler, obj) =>
                IF Matching(old, handler, obj) > 0
                THEN /\ \E i \in 1..Len(old) :
                           old[i] = Listener(handler, obj) /\ new = splice(old, i)
                     /\ Matching(new, handler, obj) = Matching(old, handler, obj) - 1
                     /\ \A other \in EventNames \ {name} :
                           ListenersOf(eventListeners', other)
                               = ListenersOf(eventListeners, other)
                     /\ DOMAIN eventListeners' = DOMAIN eventListeners
                ELSE eventListeners' = eventListeners
           /\ AddListener(name, handler, obj) =>
                /\ new = Append(old, Listener(handler, obj))
                /\ \A other \in EventNames \ {name} :
                      ListenersOf(eventListeners', other) = ListenersOf(eventListeners, other)]_vars

\* A removal has left one of several matching registrations in its list, next to a
\* registration of the same handler with another object.
C30_Witness ==
    /\ call.op = "removeListener"
    /\ mapHas(eventListeners, call.name)
    /\ Matching(eventListeners[call.name], call.f, call.o) > 0
    /\ \E r \in 1..Len(eventListeners[call.name]) :
          /\ eventListeners[call.name][r].f = call.f
          /\ eventListeners[call.name][r].o # call.o

\* ------------------------------------------------------------ post-enter cascade
\* The units a log's callbacks of one kind reach, in call order.
UnitsOfKind(kind) ==
    LET s == OfKind(kind) IN [i \in 1..Len(s) |-> <<s[i][2], s[i][3]>>]

\* C31: in the callbacks of one committed transition every call of the enter cascade,
\* and so every onActivate, comes before the first call of the post-enter cascade,
\* and the post-activate callbacks reach the same units as the onActivate callbacks,
\* in the same order, as the post-enter cascade enters the same states in the same
\* order as the enter cascade.
C31_PostEnterAfterEnter ==
    Switched =>
        /\ \A i \in IndicesOf("onEnter") \cup IndicesOf("onActivate"),
              j \in IndicesOf("onPostEnter") \cup IndicesOf("onPostActivate") : i < j
        /\ UnitsOfKind("onPostActivate") = UnitsOfKind("onActivate")
        /\ [i \in 1..Len(OfKind("onPostEnter")) |-> OfKind("onPostEnter")[i][2]]
              = [i \in 1..Len(OfKind("onEnter")) |-> OfKind("onEnter")[i][2]]

\* A transition has entered a state and its parent, both with units, below the
\* branch root.
C31_Witness ==
    /\ Switched
    /\ parent[lastCommit.taken] # NULL
    /\ parent[lastCommit.taken] # lastCommit.root
    /\ NumUnits(lastCommit.taken) > 1
    /\ NumUnits(parent[lastCommit.taken]) > 0
    /\ IndicesOf("onPostActivate") # {}

\* ------------------------------------------------------------ one outstanding tick
\* C32: at most one call of _onApplyTick is queued on the host's task queue at any
\* time, however many changeState calls were made since the last one ran, and while
\* one is queued the tick-requested flag is set.
C32_OneTickOutstanding ==
    /\ tickQueue \in {0, 1}
    /\ tickQueue = 1 => tickRequested

\* The host has made two or more successful changeState calls in a row and the tick
\* scheduled by the first has not run yet.
C32_Witness ==
    /\ RequestsMade
    /\ Len(call.names) >= 2
    /\ lastError = ""
    /\ pendingState = LastRequested
    /\ tickQueue = 1

\* ------------------------------------------------------------ the tick-requested flag
\* A call of _onApplyTick is queued, or has started and not yet finished.
TickOutstanding == tickQueue > 0 \/ (pc = "commit" /\ caller = "tick")

\* C35: the tick-requested flag is set exactly when a call of _onApplyTick is queued
\* or running, in every reachable state, also after a commit run by that call failed
\* with the cascade-limit error.
C35_FlagMirrorsQueue == tickRequested <=> TickOutstanding

\* ------------------------------------------------------------ after the cascade limit
\* C37: when commitStateChange fails with the cascade-limit error, MAXIMUM_STATE_CHANGES
\* changes have been made in that call, the active state is the state the last of them
\* took, the request that made the loop go on is still pending after the failure,
\* and the first iteration of the next commitStateChange call takes the state that is
\* pending then.
C37_StateAfterCascadeLimit ==
    /\ [][CommitThrow =>
            /\ counter = MAXIMUM_STATE_CHANGES
            /\ lastCommit.taken = activeState
            /\ activeState' = activeState
            /\ pendingState' = pendingState
            /\ pendingState' # NULL
            /\ lastError' = ErrTooManyChanges]_vars
    /\ [][pc = "commit" /\ counter = 0 /\ pendingState # NULL =>
            activeState' = pendingState /\ counter' = 1]_vars

\* A commit call has failed with the cascade-limit error, leaving a request for
\* another state than the active one pending.
C37_Witness ==
    /\ pc = "idle"
    /\ lastError = ErrTooManyChanges
    /\ counter = MAXIMUM_STATE_CHANGES + 1
    /\ pendingState # NULL
    /\ activeState # NULL
    /\ pendingState # activeState

\* ------------------------------------------------------------ requests inside a cascade
\* The branch root commitStateChange computes for a change from 'from' to 'to'.
RootFor(from, to) ==
    IF to # from /\ from # NULL THEN findCommonAncestor(parent, from, to).value ELSE NULL

\* C38: when an iteration of the commit loop that takes B from A ends with a leaf C
\* requested by one of its callbacks, the iteration has still made B active and has
\* run A's exit cascade, B's enter cascade and B's post-enter cascade to their ends;
\* the commit call does not return while a state is pending, and its next iteration
\* takes the pending state C from B with the branch root computed for B and C.
C38_RequestInsideCascade ==
    /\ [][(/\ pc = "commit"
            /\ pendingState # NULL
            /\ pendingState # activeState
            /\ pendingState' # NULL
            /\ CommitIterate(pendingState')) =>
              LET root == RootFor(activeState, pendingState)
              IN /\ activeState' = pendingState
                 /\ pendingState' \in Leaves(children)
                 /\ pc' = "commit"
                 /\ log' = (IF activeState # NULL
                            THEN onExit(parent, activeState, root) ELSE <<>>)
                           \o onEnter(parent, pendingState, root)
                           \o onPostEnter(parent, pendingState, root)]_vars
    /\ [][pc = "commit" /\ pendingState # NULL =>
            \/ CommitThrow
            \/ /\ pc' = "commit"
               /\ lastCommit' = [taken |-> pendingState, from |-> activeState,
                                 root |-> RootFor(activeState, pendingState)]]_vars

\* The commit call run by the tick has taken a second state, requested by a callback
\* of its first transition, and the branch root of the two states is a state.
C38_Witness ==
    /\ pc = "commit"
    /\ caller = "tick"
    /\ counter = 2
    /\ SwitchedFromTo
    /\ lastCommit.root # NULL
    /\ activeState = lastCommit.taken

\* ------------------------------------------------------------ the active set
\* The units attached to a state and its ancestors; none for no state.
UnitsOnChain(n) ==
    IF n = NULL THEN {}
    ELSE {u \in ({n} \cup AncestorsOf(parent, n)) \X (1..MaxUnits) : u[2] <= NumUnits(u[1])}

\* The units the callbacks of one kind in the log were made on.
UnitsCalled(kind) == {<<log[i][2], log[i][3]>> : i \in IndicesOf(kind)}

\* C33: the units that received onActivate more recently than onDeactivate are the
\* units attached to the active state and its ancestors. They are none before
\* initialization, and a committed transition keeps the property: the units of the
\* left state's chain, less those the transition deactivated, plus those it
\* activated, are the units of the new active state's chain.
C33_ActiveSetInvariant ==
    Switched =>
        (UnitsOnChain(lastCommit.from) \ UnitsCalled("onDeactivate"))
            \cup UnitsCalled("onActivate")
          = UnitsOnChain(activeState)

\* ------------------------------------------------------------ the parent links
\* A parentless state is reached from n in at most k parent steps.
RECURSIVE ReachesRoot(_, _, _)
ReachesRoot(par, n, k) ==
    IF par[n] = NULL THEN TRUE
    ELSE IF k = 0 THEN FALSE
    ELSE ReachesRoot(par, par[n], k - 1)

\* C34: once link resolution has succeeded the parent links form a forest: from every
\* state a parentless state is reached in fewer parent steps than there are states,
\* so no state is its own ancestor.
C34_ParentLinksForest ==
    InitPassDone => \A n \in 1..Len(parent) : ReachesRoot(parent, n, Len(parent) - 1)

\* ------------------------------------------------------------ after onDestroy
\* StateTree.onDestroy has been called and has returned.
Destroyed ==
    \/ call.op = "onDestroy" /\ call.done
    \/ call.op = "changeState" /\ call.destroyed

\* C36: once StateTree.onDestroy has returned no step invokes onActivate, a
\* post-activate callback or an update callback of a unit, also when a state was
\* pending or a tick was queued when onDestroy was called.
C36_DestroyedTreeInert ==
    Destroyed =>
        IndicesOf("onActivate") \cup IndicesOf("onPostActivate") \cup IndicesOf("onUpdate")
            = {}

\* ------------------------------------------------------------ firing an event
\* C39: fire(name, data) invokes the callback of every registration the named event
\* had when fire was called, once each and in registration order, and no callback of
\* another event's registrations, also when a callback removes its own or another
\* registration of the event while the event is being fired.
C39_FireNotifiesAll ==
    [][\A name \in EventNames, cb \in Callbacks(Handlers, Objects) :
          Fire(name, cb) => call'.notified = ListenersOf(eventListeners, name)]_vars

====
